---- MODULE Spec2Model ----
(***************************************************************************)
(* Alert coordination of the two stations:                                 *)
(*   - the sensor hub (src/abcd.py): fall classifier, joystick event       *)
(*     capture, environmental sampler, status and acknowledge endpoints;   *)
(*   - the vision unit (src/run.py): proximity alerts from detections,     *)
(*     remote status polling, per-key cooldown, announcement dispatch.     *)
(*                                                                         *)
(* Time is the value time.time() returns, in whole seconds.  The worker    *)
(* loops run at 10-20 Hz, so any number of loop iterations may observe the *)
(* same clock value.  Accelerations are in tenths of g, rotation in deg/s. *)
(***************************************************************************)
EXTENDS Integers, Sequences, FiniteSets, TLC

(***************************************************************************)
(* Program constants                                                       *)
(***************************************************************************)
FREEFALL_THRESHOLD == 6
IMPACT_THRESHOLD == 20
GYRO_THRESHOLD == 150
fall_cooldown == 10
required_consecutive == 2
FallHistoryMaxLen == 10
EmergencyHistoryMaxLen == 10
AssistanceHistoryMaxLen == 20
\* run.py: thresholds in tenths of the frame height, the deadzone in percent
\* of the frame width, intervals and cooldowns in seconds
CRITICAL_DISTANCE == 6
WARNING_DISTANCE == 4
DeadzonePercent == 15
inference_interval == 5
alert_cooldown == 5
fall_check_interval == 2
fall_alert_cooldown == 15
assistance_check_interval == 2
assistance_alert_cooldown == 20
emergency_check_interval == 2
EmergencyAlertCooldownDefault == 20
\* the size of the frames the hub streams
FrameWidth == 640
FrameHeight == 480

(***************************************************************************)
(* Bounds of the model                                                     *)
(***************************************************************************)
\* seconds of clock time a run of the fall classifier covers
FallHorizon == 12
\* seconds of clock time a run of the whole hub covers
HubHorizon == 1
\* cap on the hysteresis counter (the code lets it grow during a cooldown)
MaxReadings == 3
\* worker iterations (samples, joystick events) in a run of the whole hub
MaxHubEvents == 3
\* seconds of clock time a run of the vision unit covers on the proximity path
ProximityHorizon == 6
\* seconds of clock time a run of the vision unit covers on a polling path
PollHorizon == 21
\* seconds of clock time a run of both stations covers
EndToEndHorizon == 4
\* emergency polls in a run of both stations
MaxPolls == 3
\* worker iterations (samples, joystick events) in a run of both stations
MaxEndToEndEvents == 2

\* FallEvents already recorded when a run filling the fall history starts
PriorFalls == 9
\* seconds of clock time a run filling the fall history covers
FallHistoryHorizon == 12
\* seconds of clock time a run filling a joystick history covers
StickHistoryHorizon == 2
\* joystick events in a run filling a joystick history
MaxHistoryEvents == 21

\* seconds of clock time a run of the hub's threads covers
ThreadHorizon == 1
\* worker iterations (samples, joystick events) in a run of the hub's threads
MaxThreadEvents == 2

\* announcements submitted in a run of the speech threads
MaxSpeechThreads == 3
MaxSessions == 2
MaxDbRows == 3

\* seconds of clock time a run of the vision unit's main loop covers
LoopHorizon == 2

\* no helper has been called
NoCall == "none"

\* no thread holds the lock
NoThread == 0

\* Python's None where a timestamp is expected, and where a request type is
None == 0 - 1
NoneType == "None"

\* the clock at start: time.time() is far larger than every interval compared
\* against it, so a "last time" of 0 is always older than any cooldown
StartTime == 30

\* magnitudes the sensor can report: either side of, and on, each threshold
AccelValues == {5, 6, 10, 20, 21}
GyroValues == {150, 151}

VARIABLES
    now,                    \* time.time()
    \* ---- sensor hub (src/abcd.py) ----
    consecutive_readings,   \* local of fall_detection_worker
    fall_detected,
    fall_timestamp,
    fall_history,
    emergency_active,
    emergency_timestamp,
    emergency_history,
    assistance_request,
    assistance_timestamp,
    assistance_history,
    environmental_data,
    \* ---- observation of the run (no counterpart in the code) ----
    horizon,                \* clock value at which the run stops
    last_op,                \* the handler that took the last step
    sample_obs,             \* the last fall sample: its signal, the one before, fired or not
    freefall_samples,       \* samples below the freefall threshold so far (3 = three or more)
    tumble_samples,         \* samples with impact and rotation so far (3 = three or more)
    quiet_after,            \* a sample that is neither followed one that is either
    pos_split,              \* a freefall or tumble sample came after such a quiet sample
    events,                 \* worker iterations taken so far, where a run bounds them
    \* ---- vision unit (src/run.py, attributes of VisionAssistant) ----
    session_id,
    last_inference_time,
    last_alert_time,        \* dict read with .get(key, 0): a function with default 0
    current_detections,
    scene_objects,
    last_fall_check,
    last_fall_alert_time,
    last_emergency_check,
    last_emergency_alert_time,
    emergency_alert_cooldown,
    last_assistance_check,
    last_assistance_alert_time,  \* dict read with .get(type, 0)
    \* ---- observation of the vision unit (no counterpart in the code) ----
    path,                   \* the part of the program a run exercises
    speak_calls,            \* the texts the last handler passed to speak()
    log_calls,              \* the rows the last handler passed to log_alert()
    cands,                  \* the alert candidates the last handler looked at
    streak,                 \* alerts accepted since the polled flag was last seen inactive
    poll_log,               \* the emergency polls so far, in a run of both stations
    unannounced,            \* categories with an event on the hub that no accepted
                            \* alert of the vision unit has followed yet
    http_response,          \* what the last step answered, if it served a request
    arrived,                \* every event the hub recorded, per history, in order
    \* ---- the hub's threads, statement by statement ----
    worker_pc,              \* where each worker is inside its recording block
    snapshot,               \* what the last status request read, field by field
    \* ---- the vision unit's announcement threads ----
    tts_lock,               \* the thread holding self.tts_lock, or NoThread
    speech_threads,         \* where each thread started by speak() is
    \* ---- one pass of the vision unit's main loop ----
    loop_pc,                \* the call the loop of run() makes next
    pass_log,               \* what each call of the current pass did
    \* ---- one call of a helper method on its own ----
    call_args,              \* the arguments of the call
    call_result,            \* what the call returned
    \* ---- sensor hub: the LED animation thread ----
    \* ---- vision unit: the data logger's database ----
    db,                     \* the sessions, detections and alerts tables
    \* ---- sensor hub: the LED animation thread (declared last) ----
    led                     \* where led_animation_worker is: at its check of the
                            \* flags or inside a pattern, the frames the pattern
                            \* has written, the pattern's index

fallVars == <<consecutive_readings, fall_detected, fall_timestamp, fall_history>>
emergencyVars == <<emergency_active, emergency_timestamp, emergency_history>>
assistanceVars == <<assistance_request, assistance_timestamp, assistance_history>>
sampleObsVars == <<sample_obs, freefall_samples, tumble_samples, quiet_after, pos_split>>
hubVars == <<fallVars, emergencyVars, assistanceVars, environmental_data>>
proximityVars == <<last_inference_time, last_alert_time, current_detections,
                   scene_objects>>
pollVars == <<last_fall_check, last_fall_alert_time, last_emergency_check,
              last_emergency_alert_time, emergency_alert_cooldown,
              last_assistance_check, last_assistance_alert_time>>
visionObsVars == <<path, speak_calls, log_calls, cands, streak, poll_log>>
visionAll == <<session_id, proximityVars, pollVars, visionObsVars>>
hubAll == <<hubVars, sampleObsVars, events>>
threadVars == <<worker_pc, snapshot>>
speechVars == <<tts_lock, speech_threads>>
loopVars == <<loop_pc, pass_log>>
callVars == <<call_args, call_result>>
ledVars == <<led>>
dbVars == <<db>>
vars == <<now, horizon, last_op, hubAll, visionAll, unannounced, http_response,
          arrived, threadVars, speechVars, loopVars, callVars, ledVars, dbVars>>

Min(a, b) == IF a < b THEN a ELSE b

\* mutation: the count falls back to its floor, a negative sample clears it
\* instead of taking one off
MaxIsTheFloor(a, b) == IF a > b THEN a ELSE a

\* max(0, consecutive_readings - 1)
Max(a, b) == IF a > b THEN a ELSE b

\* mutation: a full deque refuses the new entry
DequeAppendKeepsOldest(h, e, maxlen) ==
    IF Len(h) >= maxlen THEN h ELSE Append(h, e)

\* collections.deque(maxlen=n).append(e): the oldest entry leaves a full deque
DequeAppend(h, e, maxlen) ==
    IF Len(h) >= maxlen THEN Append(Tail(h), e) ELSE Append(h, e)

\* a step that serves no request
NoResponse == [code |-> 0]

\* jsonify({'status': 'acknowledged', 'timestamp': ...}): the answer of the three
\* acknowledge endpoints, whatever the flag was
Acknowledged == [code |-> 200, status |-> "acknowledged"]

(***************************************************************************)
(* Sensor hub: fall classifier                                             *)
(***************************************************************************)
is_freefall(accel_magnitude) == accel_magnitude < FREEFALL_THRESHOLD
is_impact(accel_magnitude) == accel_magnitude > IMPACT_THRESHOLD
is_rotating(gyro_magnitude) == gyro_magnitude > GYRO_THRESHOLD

\* mutation: the freefall disjunct is lost
detect_fall_impact_only(accel_magnitude, gyro_magnitude) ==
    is_impact(accel_magnitude) /\ is_rotating(gyro_magnitude)

detect_fall(accel_magnitude, gyro_magnitude) ==
    (is_impact(accel_magnitude) /\ is_rotating(gyro_magnitude))
        \/ is_freefall(accel_magnitude)

\* what a reading is, by the thresholds alone (for the observation variables)
SampleKind(accel_magnitude, gyro_magnitude) ==
    IF accel_magnitude < FREEFALL_THRESHOLD THEN "freefall"
    ELSE IF accel_magnitude > IMPACT_THRESHOLD /\ gyro_magnitude > GYRO_THRESHOLD
         THEN "tumble"
         ELSE "quiet"

\* mutation: only a hub that has never recorded a fall records one
FallCooldownOverNever(current_time) ==
    fall_timestamp = None /\ current_time >= 0

\* mutation: the cooldown comparison is not strict
FallCooldownOverInclusive(current_time) ==
    fall_timestamp = None \/ (current_time - fall_timestamp) >= fall_cooldown

\* abcd.py:492
FallCooldownOver(current_time) ==
    fall_timestamp = None \/ (current_time - fall_timestamp) > fall_cooldown

\* one iteration of the loop of fall_detection_worker with readings of
\* magnitude accel_mag and gyro_mag
FallSample(accel_mag, gyro_mag) ==
    LET is_fall == detect_fall(accel_mag, gyro_mag)
        kind == SampleKind(accel_mag, gyro_mag)
        incremented == consecutive_readings + 1
        fire == /\ is_fall
                /\ incremented >= required_consecutive
                /\ FallCooldownOver(now)
        fall_event == [timestamp |-> now, acceleration |-> accel_mag,
                       rotation |-> gyro_mag]
    IN  /\ is_fall => consecutive_readings < MaxReadings
        /\ consecutive_readings' =
              IF is_fall
              THEN (IF fire THEN 0 ELSE incremented)
              ELSE Max(0, consecutive_readings - 1)
        /\ fall_detected' = IF fire THEN TRUE ELSE fall_detected
        /\ fall_timestamp' = IF fire THEN now ELSE fall_timestamp
        /\ fall_history' =
              IF fire THEN DequeAppend(fall_history, fall_event, FallHistoryMaxLen)
              ELSE fall_history
        /\ sample_obs' = [signal |-> is_fall, prev |-> sample_obs.signal,
                          fired |-> fire]
        /\ freefall_samples' =
              IF kind = "freefall" THEN Min(freefall_samples + 1, 3)
              ELSE freefall_samples
        /\ tumble_samples' =
              IF kind = "tumble" THEN Min(tumble_samples + 1, 3)
              ELSE tumble_samples
        /\ quiet_after' = (quiet_after \/ (kind = "quiet"
                               /\ freefall_samples + tumble_samples > 0))
        /\ pos_split' = (pos_split \/ (kind # "quiet" /\ quiet_after))
        /\ last_op' = "fall_detection_worker"
        /\ UNCHANGED <<callVars, ledVars, dbVars>>
        /\ http_response' = NoResponse
        /\ arrived' = IF fire THEN [arrived EXCEPT !.fall = Append(@, fall_event)]
                      ELSE arrived
        /\ UNCHANGED <<threadVars, speechVars, loopVars>>
        /\ unannounced' = IF fire THEN unannounced \cup {"fall"} ELSE unannounced
        /\ UNCHANGED visionAll
        /\ UNCHANGED <<now, horizon, emergencyVars, assistanceVars,
                       environmental_data>>

\* one iteration of the fall worker in which reading the sensor raises: the
\* except branch prints the error and sleeps a second before the next iteration
FallSampleFailedAnd(loses_count) ==
    /\ now < horizon
    /\ now' = now + 1
    /\ consecutive_readings' = IF loses_count THEN 0 ELSE consecutive_readings
    /\ last_op' = "fall_detection_worker failed"
    /\ UNCHANGED <<callVars, ledVars, dbVars>>
    /\ http_response' = NoResponse
    /\ UNCHANGED arrived
    /\ UNCHANGED <<threadVars, speechVars, loopVars>>
    /\ UNCHANGED unannounced
    /\ UNCHANGED visionAll
    /\ UNCHANGED <<fall_detected, fall_timestamp, fall_history, horizon,
                   emergencyVars, assistanceVars, environmental_data,
                   sampleObsVars, events>>

\* mutation: the failed iteration forgets the positive samples counted so far
FallSampleFailedLosesCount == FallSampleFailedAnd(TRUE)

FallSampleFailed == FallSampleFailedAnd(FALSE)

\* mutation: the acknowledgment also forgets when the fall happened
fall_acknowledge_resets_timestamp ==
    /\ fall_detected' = FALSE
    /\ fall_timestamp' = None
    /\ last_op' = "fall_acknowledge"
    /\ UNCHANGED <<callVars, ledVars, dbVars>>
    /\ http_response' = Acknowledged
    /\ UNCHANGED arrived
    /\ UNCHANGED <<threadVars, speechVars, loopVars>>
    /\ UNCHANGED unannounced
    /\ UNCHANGED visionAll
    /\ UNCHANGED <<now, horizon, consecutive_readings, fall_history,
                   emergencyVars, assistanceVars, environmental_data,
                   sampleObsVars, events>>

\* GET /api/fall_acknowledge
fall_acknowledge ==
    /\ fall_detected' = FALSE
    /\ last_op' = "fall_acknowledge"
    /\ UNCHANGED <<callVars, ledVars, dbVars>>
    /\ http_response' = Acknowledged
    /\ UNCHANGED arrived
    /\ UNCHANGED <<threadVars, speechVars, loopVars>>
    /\ UNCHANGED unannounced
    /\ UNCHANGED visionAll
    /\ UNCHANGED <<now, horizon, consecutive_readings, fall_timestamp, fall_history,
                   emergencyVars, assistanceVars, environmental_data,
                   sampleObsVars, events>>

(***************************************************************************)
(* Sensor hub: joystick event capture                                      *)
(***************************************************************************)
StickActions == {"pressed", "released", "held"}
StickDirections == {"up", "down", "left", "right", "middle"}

\* the assistance_types table of emergency_monitoring_worker
assistance_types ==
    [up    |-> [name |-> "General Help", message |-> "Patient needs general assistance"],
     down  |-> [name |-> "Bathroom", message |-> "Patient needs bathroom assistance"],
     left  |-> [name |-> "Food/Water", message |-> "Patient needs food or water"],
     right |-> [name |-> "Medication", message |-> "Patient needs medication"]]

\* the loop body with presses lost under a condition, for the two mutations
\* that follow
StickEventUnless(action, direction, ignored) ==
    /\ last_op' = "emergency_monitoring_worker"
    /\ UNCHANGED <<callVars, ledVars, dbVars>>
    /\ http_response' = NoResponse
    /\ arrived' =
          IF (action = "pressed" /\ ~ignored) /\ direction = "middle"
          THEN [arrived EXCEPT !.emergency =
                   Append(@, [timestamp |-> now, type |-> "manual_button_press"])]
          ELSE IF (action = "pressed" /\ ~ignored) /\ direction \in DOMAIN assistance_types
          THEN [arrived EXCEPT !.assistance =
                   Append(@, [timestamp |-> now,
                              type |-> assistance_types[direction].name,
                              message |-> assistance_types[direction].message,
                              direction |-> direction])]
          ELSE arrived
    /\ UNCHANGED <<threadVars, speechVars, loopVars>>
    /\ unannounced' = IF (action = "pressed" /\ ~ignored) /\ direction = "middle"
                      THEN unannounced \cup {"emergency"} ELSE unannounced
    /\ UNCHANGED visionAll
    /\ IF (action = "pressed" /\ ~ignored) /\ direction = "middle"
       THEN /\ emergency_active' = TRUE
            /\ emergency_timestamp' = now
            /\ emergency_history' =
                  DequeAppend(emergency_history,
                              [timestamp |-> now, type |-> "manual_button_press"],
                              EmergencyHistoryMaxLen)
            /\ UNCHANGED assistanceVars
       ELSE IF (action = "pressed" /\ ~ignored) /\ direction \in DOMAIN assistance_types
       THEN /\ assistance_request' = assistance_types[direction].name
            /\ assistance_timestamp' = now
            /\ assistance_history' =
                  DequeAppend(assistance_history,
                              [timestamp |-> now,
                               type |-> assistance_types[direction].name,
                               message |-> assistance_types[direction].message,
                               direction |-> direction],
                              AssistanceHistoryMaxLen)
            /\ UNCHANGED emergencyVars
       ELSE UNCHANGED <<emergencyVars, assistanceVars>>
    /\ UNCHANGED <<now, horizon, fallVars, environmental_data, sampleObsVars>>

\* mutation: a directional press is ignored while a request is active
StickEventKeepsActiveRequest(action, direction) ==
    StickEventUnless(action, direction,
                     direction # "middle" /\ assistance_request # NoneType)

\* mutation: a middle press in the same second as the last one is ignored
StickEventDebounced(action, direction) ==
    StickEventUnless(action, direction,
                     direction = "middle" /\ emergency_timestamp = now)

\* the body of "for event in events" of emergency_monitoring_worker for one
\* joystick event
StickEvent(action, direction) ==
    /\ last_op' = "emergency_monitoring_worker"
    /\ UNCHANGED <<callVars, ledVars, dbVars>>
    /\ http_response' = NoResponse
    /\ arrived' =
          IF action = "pressed" /\ direction = "middle"
          THEN [arrived EXCEPT !.emergency =
                   Append(@, [timestamp |-> now, type |-> "manual_button_press"])]
          ELSE IF action = "pressed" /\ direction \in DOMAIN assistance_types
          THEN [arrived EXCEPT !.assistance =
                   Append(@, [timestamp |-> now,
                              type |-> assistance_types[direction].name,
                              message |-> assistance_types[direction].message,
                              direction |-> direction])]
          ELSE arrived
    /\ UNCHANGED <<threadVars, speechVars, loopVars>>
    /\ unannounced' = IF action = "pressed" /\ direction = "middle"
                      THEN unannounced \cup {"emergency"} ELSE unannounced
    /\ UNCHANGED visionAll
    /\ IF action = "pressed" /\ direction = "middle"
       THEN /\ emergency_active' = TRUE
            /\ emergency_timestamp' = now
            /\ emergency_history' =
                  DequeAppend(emergency_history,
                              [timestamp |-> now, type |-> "manual_button_press"],
                              EmergencyHistoryMaxLen)
            /\ UNCHANGED assistanceVars
       ELSE IF action = "pressed" /\ direction \in DOMAIN assistance_types
       THEN /\ assistance_request' = assistance_types[direction].name
            /\ assistance_timestamp' = now
            /\ assistance_history' =
                  DequeAppend(assistance_history,
                              [timestamp |-> now,
                               type |-> assistance_types[direction].name,
                               message |-> assistance_types[direction].message,
                               direction |-> direction],
                              AssistanceHistoryMaxLen)
            /\ UNCHANGED emergencyVars
       ELSE UNCHANGED <<emergencyVars, assistanceVars>>
    /\ UNCHANGED <<now, horizon, fallVars, environmental_data, sampleObsVars>>

\* a worker iteration that counts against the bound of the run
Counted(iteration, max) ==
    /\ events < max
    /\ iteration
    /\ events' = events + 1

(***************************************************************************)
(* Sensor hub: environmental sampler                                       *)
(***************************************************************************)
\* one iteration of environmental_monitoring_worker; the readings themselves
\* are not kept, only the shape of the snapshot and its time
EnvSample ==
    /\ environmental_data' =
          [fields |-> {"temperature_c", "temperature_f", "humidity", "pressure",
                       "last_update"},
           last_update |-> now]
    /\ last_op' = "environmental_monitoring_worker"
    /\ UNCHANGED <<callVars, ledVars, dbVars>>
    /\ http_response' = NoResponse
    /\ UNCHANGED arrived
    /\ UNCHANGED <<threadVars, speechVars, loopVars>>
    /\ UNCHANGED unannounced
    /\ UNCHANGED visionAll
    /\ UNCHANGED <<now, horizon, fallVars, emergencyVars, assistanceVars,
                   sampleObsVars>>

(***************************************************************************)
(* Sensor hub: the idle LED animation                                      *)
(***************************************************************************)
\* for _ in range(160) in each of the four patterns
PatternFrames == 160

\* patterns = [rainbow_wave, fire_pattern, matrix_rain, spiral_pattern]
PatternCount == 4

\* the worker at the top of its loop, its next pattern the one with this index
LedAtCheck(pattern_index) ==
    [at |-> "check", frames |-> 0, pattern_index |-> pattern_index]

\* what a step of the animation thread leaves alone
LedStepFrame ==
    /\ last_op' = "led_animation_worker"
    /\ http_response' = NoResponse
    /\ UNCHANGED <<now, horizon, hubAll, visionAll, unannounced, arrived,
                   threadVars, speechVars, loopVars, callVars, dbVars>>

\* the top of the loop: with a flag set the worker sleeps a second and checks
\* again, with none it calls the next pattern
LedCheck ==
    /\ led.at = "check"
    /\ led' = IF fall_detected \/ emergency_active \/ assistance_request # NoneType
              THEN led
              ELSE [led EXCEPT !.at = "pattern"]
    /\ LedStepFrame

\* one pass of the pattern's loop, sense.set_pixels(pixels) and the sleep;
\* after the last one the worker moves to the next pattern and to the top of
\* its loop
LedPatternFrame ==
    /\ led.at = "pattern"
    /\ led' = IF led.frames + 1 < PatternFrames
              THEN [led EXCEPT !.frames = @ + 1]
              ELSE LedAtCheck((led.pattern_index + 1) % PatternCount)
    /\ LedStepFrame

(***************************************************************************)
(* Sensor hub: HTTP endpoints                                              *)
(***************************************************************************)
\* the body GET /api/fall_status answers with
fall_status_body ==
    [fall_detected |-> fall_detected,
     last_fall_timestamp |-> fall_timestamp,
     fall_history |-> fall_history]

\* the body GET /api/emergency_status answers with
emergency_status_body ==
    [emergency_active |-> emergency_active,
     last_emergency_timestamp |-> emergency_timestamp,
     emergency_history |-> emergency_history]

\* the body GET /api/assistance_status answers with
assistance_status_body ==
    [assistance_active |-> assistance_request # NoneType,
     assistance_type |-> assistance_request,
     last_assistance_timestamp |-> assistance_timestamp,
     assistance_history |-> assistance_history]

\* what a status endpoint answers
StatusAnswer(endpoint) ==
    [code |-> 200,
     body |-> CASE endpoint = "fall_status" -> fall_status_body
                [] endpoint = "get_emergency_status" -> emergency_status_body
                [] endpoint = "get_assistance_status" -> assistance_status_body
                [] OTHER -> environmental_data]

\* mutation: reading the fall status also takes the alert down
StatusReadAndReset(endpoint) ==
    /\ last_op' = endpoint
    /\ UNCHANGED <<callVars, ledVars, dbVars>>
    /\ http_response' = StatusAnswer(endpoint)
    /\ fall_detected' = IF endpoint = "fall_status" THEN FALSE ELSE fall_detected
    /\ UNCHANGED arrived
    /\ UNCHANGED <<threadVars, speechVars, loopVars>>
    /\ UNCHANGED unannounced
    /\ UNCHANGED visionAll
    /\ UNCHANGED <<now, horizon, consecutive_readings, fall_timestamp, fall_history,
                   emergencyVars, assistanceVars, environmental_data,
                   sampleObsVars, events>>

\* a status read: GET /api/fall_status, /api/emergency_status,
\* /api/assistance_status or /api/environmental
StatusRead(endpoint) ==
    /\ last_op' = endpoint
    /\ UNCHANGED <<callVars, ledVars, dbVars>>
    /\ http_response' = StatusAnswer(endpoint)
    /\ UNCHANGED arrived
    /\ UNCHANGED <<threadVars, speechVars, loopVars>>
    /\ UNCHANGED unannounced
    /\ UNCHANGED visionAll
    /\ UNCHANGED <<now, horizon, hubVars, sampleObsVars, events>>

\* mutation: the handler was copied from fall_acknowledge and still clears the
\* fall flag
acknowledge_emergency_clears_fall ==
    /\ emergency_active' = FALSE
    /\ fall_detected' = FALSE
    /\ last_op' = "acknowledge_emergency"
    /\ UNCHANGED <<callVars, ledVars, dbVars>>
    /\ http_response' = Acknowledged
    /\ UNCHANGED arrived
    /\ UNCHANGED <<threadVars, speechVars, loopVars>>
    /\ UNCHANGED unannounced
    /\ UNCHANGED visionAll
    /\ UNCHANGED <<now, horizon, consecutive_readings, fall_timestamp, fall_history,
                   emergency_timestamp, emergency_history,
                   assistanceVars, environmental_data, sampleObsVars, events>>

\* GET /api/emergency_acknowledge
acknowledge_emergency ==
    /\ emergency_active' = FALSE
    /\ last_op' = "acknowledge_emergency"
    /\ UNCHANGED <<callVars, ledVars, dbVars>>
    /\ http_response' = Acknowledged
    /\ UNCHANGED arrived
    /\ UNCHANGED <<threadVars, speechVars, loopVars>>
    /\ UNCHANGED unannounced
    /\ UNCHANGED visionAll
    /\ UNCHANGED <<now, horizon, fallVars, emergency_timestamp, emergency_history,
                   assistanceVars, environmental_data, sampleObsVars, events>>

\* mutation: acknowledging when no request is active is answered as an error
acknowledge_assistance_rejects_idle ==
    /\ assistance_request' = NoneType
    /\ last_op' = "acknowledge_assistance"
    /\ UNCHANGED <<callVars, ledVars, dbVars>>
    /\ http_response' = IF assistance_request = NoneType
                        THEN [code |-> 400, status |-> "error"]
                        ELSE Acknowledged
    /\ UNCHANGED arrived
    /\ UNCHANGED <<threadVars, speechVars, loopVars>>
    /\ UNCHANGED unannounced
    /\ UNCHANGED visionAll
    /\ UNCHANGED <<now, horizon, fallVars, emergencyVars, assistance_timestamp,
                   assistance_history, environmental_data, sampleObsVars,
                   events>>

\* GET /api/assistance_acknowledge
acknowledge_assistance ==
    /\ assistance_request' = NoneType
    /\ last_op' = "acknowledge_assistance"
    /\ UNCHANGED <<callVars, ledVars, dbVars>>
    /\ http_response' = Acknowledged
    /\ UNCHANGED arrived
    /\ UNCHANGED <<threadVars, speechVars, loopVars>>
    /\ UNCHANGED unannounced
    /\ UNCHANGED visionAll
    /\ UNCHANGED <<now, horizon, fallVars, emergencyVars, assistance_timestamp,
                   assistance_history, environmental_data, sampleObsVars,
                   events>>

\* the clock advances by one second
Tick ==
    /\ now < horizon
    /\ now' = now + 1
    /\ last_op' = "tick"
    /\ UNCHANGED <<callVars, ledVars, dbVars>>
    /\ http_response' = NoResponse
    /\ UNCHANGED arrived
    /\ UNCHANGED <<threadVars, speechVars, loopVars>>
    /\ UNCHANGED unannounced
    /\ UNCHANGED visionAll
    /\ UNCHANGED <<hubVars, horizon, sampleObsVars, events>>

(***************************************************************************)
(* Sensor hub, thread by thread: the workers and the request handlers are  *)
(* threads of one process that share the module's globals and take no      *)
(* lock, so a switch can fall between any two statements                   *)
(***************************************************************************)
\* a worker between two iterations of its loop
IdleFallWorker == [at |-> "idle", current_time |-> 0, accel_mag |-> 0, gyro_mag |-> 0]
IdleStickWorker == [at |-> "idle", direction |-> "none"]
\* no status request is being served
NoRequest == [endpoint |-> "none", values |-> << >>]

\* what the steps of one thread leave alone apart from the hub's globals
ThreadStepFrame ==
    /\ UNCHANGED <<now, horizon, environmental_data, visionAll, speechVars,
                   loopVars>>

\* fall_detection_worker up to the cooldown test: the sample is read and
\* counted, and a confirmed fall past the cooldown enters the recording block
FallWorkerSample(accel_mag, gyro_mag) ==
    LET is_fall == detect_fall(accel_mag, gyro_mag)
        kind == SampleKind(accel_mag, gyro_mag)
        incremented == consecutive_readings + 1
        fire == /\ is_fall
                /\ incremented >= required_consecutive
                /\ FallCooldownOver(now)
    IN  /\ worker_pc.fall.at = "idle"
        /\ is_fall => consecutive_readings < MaxReadings
        /\ consecutive_readings' =
              IF is_fall THEN incremented ELSE Max(0, consecutive_readings - 1)
        /\ worker_pc' = [worker_pc EXCEPT !.fall =
              IF fire THEN [at |-> "fall_detected", current_time |-> now,
                            accel_mag |-> accel_mag, gyro_mag |-> gyro_mag]
              ELSE IdleFallWorker]
        /\ sample_obs' = [signal |-> is_fall, prev |-> sample_obs.signal,
                          fired |-> fire]
        /\ freefall_samples' =
              IF kind = "freefall" THEN Min(freefall_samples + 1, 3)
              ELSE freefall_samples
        /\ tumble_samples' =
              IF kind = "tumble" THEN Min(tumble_samples + 1, 3)
              ELSE tumble_samples
        /\ quiet_after' = (quiet_after \/ (kind = "quiet"
                               /\ freefall_samples + tumble_samples > 0))
        /\ pos_split' = (pos_split \/ (kind # "quiet" /\ quiet_after))
        /\ last_op' = "fall_detection_worker"
        /\ UNCHANGED <<callVars, ledVars, dbVars>>
        /\ http_response' = NoResponse
        /\ ThreadStepFrame
        /\ UNCHANGED <<fall_detected, fall_timestamp, fall_history, emergencyVars,
                       assistanceVars, unannounced, arrived, snapshot>>

\* abcd.py:493, fall_detected = True
FallWorkerSetFlag ==
    /\ worker_pc.fall.at = "fall_detected"
    /\ fall_detected' = TRUE
    /\ worker_pc' = [worker_pc EXCEPT !.fall.at = "fall_timestamp"]
    /\ last_op' = "fall_detection_worker"
    /\ UNCHANGED <<callVars, ledVars, dbVars>>
    /\ http_response' = NoResponse
    /\ ThreadStepFrame
    /\ UNCHANGED <<consecutive_readings, fall_timestamp, fall_history,
                   emergencyVars, assistanceVars, sampleObsVars, events,
                   unannounced, arrived, snapshot>>

\* abcd.py:494, fall_timestamp = current_time
FallWorkerSetTimestamp ==
    /\ worker_pc.fall.at = "fall_timestamp"
    /\ fall_timestamp' = worker_pc.fall.current_time
    /\ worker_pc' = [worker_pc EXCEPT !.fall.at = "fall_history"]
    /\ last_op' = "fall_detection_worker"
    /\ UNCHANGED <<callVars, ledVars, dbVars>>
    /\ http_response' = NoResponse
    /\ ThreadStepFrame
    /\ UNCHANGED <<consecutive_readings, fall_detected, fall_history,
                   emergencyVars, assistanceVars, sampleObsVars, events,
                   unannounced, arrived, snapshot>>

\* abcd.py:497-510, the event is built and appended, the LEDs flash and the
\* worker's own counter is reset
FallWorkerAppend ==
    LET fall_event == [timestamp |-> now,
                       acceleration |-> worker_pc.fall.accel_mag,
                       rotation |-> worker_pc.fall.gyro_mag]
    IN  /\ worker_pc.fall.at = "fall_history"
        /\ fall_history' = DequeAppend(fall_history, fall_event, FallHistoryMaxLen)
        /\ arrived' = [arrived EXCEPT !.fall = Append(@, fall_event)]
        /\ unannounced' = unannounced \cup {"fall"}
        /\ consecutive_readings' = 0
        /\ worker_pc' = [worker_pc EXCEPT !.fall = IdleFallWorker]
        /\ last_op' = "fall_detection_worker"
        /\ UNCHANGED <<callVars, ledVars, dbVars>>
        /\ http_response' = NoResponse
        /\ ThreadStepFrame
        /\ UNCHANGED <<fall_detected, fall_timestamp, emergencyVars,
                       assistanceVars, sampleObsVars, events, snapshot>>

\* emergency_monitoring_worker on one joystick event, up to and including
\* the first assignment of the branch it takes (abcd.py:314-319, 335-338)
StickWorkerEvent(action, direction) ==
    /\ worker_pc.stick.at = "idle"
    /\ IF action = "pressed" /\ direction = "middle"
       THEN /\ emergency_active' = TRUE
            /\ worker_pc' = [worker_pc EXCEPT !.stick =
                                [at |-> "emergency_timestamp", direction |-> direction]]
            /\ UNCHANGED assistance_request
       ELSE IF action = "pressed" /\ direction \in DOMAIN assistance_types
       THEN /\ assistance_request' = assistance_types[direction].name
            /\ worker_pc' = [worker_pc EXCEPT !.stick =
                                [at |-> "assistance_timestamp", direction |-> direction]]
            /\ UNCHANGED emergency_active
       ELSE UNCHANGED <<emergency_active, assistance_request, worker_pc>>
    /\ last_op' = "emergency_monitoring_worker"
    /\ UNCHANGED <<callVars, ledVars, dbVars>>
    /\ http_response' = NoResponse
    /\ ThreadStepFrame
    /\ UNCHANGED <<fallVars, emergency_timestamp, emergency_history,
                   assistance_timestamp, assistance_history, sampleObsVars,
                   unannounced, arrived, snapshot>>

\* abcd.py:320 and 339, the timestamp of the branch taken
StickWorkerSetTimestamp ==
    /\ worker_pc.stick.at \in {"emergency_timestamp", "assistance_timestamp"}
    /\ IF worker_pc.stick.at = "emergency_timestamp"
       THEN /\ emergency_timestamp' = now
            /\ worker_pc' = [worker_pc EXCEPT !.stick.at = "emergency_history"]
            /\ UNCHANGED assistance_timestamp
       ELSE /\ assistance_timestamp' = now
            /\ worker_pc' = [worker_pc EXCEPT !.stick.at = "assistance_history"]
            /\ UNCHANGED emergency_timestamp
    /\ last_op' = "emergency_monitoring_worker"
    /\ UNCHANGED <<callVars, ledVars, dbVars>>
    /\ http_response' = NoResponse
    /\ ThreadStepFrame
    /\ UNCHANGED <<fallVars, emergency_active, emergency_history,
                   assistance_request, assistance_history, sampleObsVars, events,
                   unannounced, arrived, snapshot>>

\* abcd.py:323-333 and 342-353, the event is built and appended and the LEDs
\* flash
StickWorkerAppend ==
    LET direction == worker_pc.stick.direction
        emergency_event == [timestamp |-> now, type |-> "manual_button_press"]
        assistance_event == [timestamp |-> now,
                             type |-> assistance_types[direction].name,
                             message |-> assistance_types[direction].message,
                             direction |-> direction]
    IN  /\ worker_pc.stick.at \in {"emergency_history", "assistance_history"}
        /\ IF worker_pc.stick.at = "emergency_history"
           THEN /\ emergency_history' =
                      DequeAppend(emergency_history, emergency_event,
                                  EmergencyHistoryMaxLen)
                /\ arrived' = [arrived EXCEPT !.emergency = Append(@, emergency_event)]
                /\ unannounced' = unannounced \cup {"emergency"}
                /\ UNCHANGED assistance_history
           ELSE /\ assistance_history' =
                      DequeAppend(assistance_history, assistance_event,
                                  AssistanceHistoryMaxLen)
                /\ arrived' = [arrived EXCEPT !.assistance = Append(@, assistance_event)]
                /\ UNCHANGED <<emergency_history, unannounced>>
        /\ worker_pc' = [worker_pc EXCEPT !.stick = IdleStickWorker]
        /\ last_op' = "emergency_monitoring_worker"
        /\ UNCHANGED <<callVars, ledVars, dbVars>>
        /\ http_response' = NoResponse
        /\ ThreadStepFrame
        /\ UNCHANGED <<fallVars, emergency_active, emergency_timestamp,
                       assistance_request, assistance_timestamp, sampleObsVars,
                       events, snapshot>>

\* the globals a status handler reads, in the order the arguments of its
\* jsonify call are evaluated
StatusFields(endpoint) ==
    CASE endpoint = "fall_status" ->
            <<fall_detected, fall_timestamp, fall_history>>
      [] endpoint = "get_emergency_status" ->
            <<emergency_active, emergency_timestamp, emergency_history>>
      [] OTHER ->
            <<assistance_request # NoneType, assistance_request,
              assistance_timestamp, assistance_history>>

\* the body a status handler answers with once it has read every field
StatusBodyOf(endpoint, values) ==
    CASE endpoint = "fall_status" ->
            [fall_detected |-> values[1], last_fall_timestamp |-> values[2],
             fall_history |-> values[3]]
      [] endpoint = "get_emergency_status" ->
            [emergency_active |-> values[1], last_emergency_timestamp |-> values[2],
             emergency_history |-> values[3]]
      [] OTHER ->
            [assistance_active |-> values[1], assistance_type |-> values[2],
             last_assistance_timestamp |-> values[3],
             assistance_history |-> values[4]]

ThreadedEndpoints == {"fall_status", "get_emergency_status", "get_assistance_status"}

\* one step of a status handler's thread: the request arrives and the first
\* global is read, or the next global is read; after the last one the handler
\* answers
StatusRequestStep(endpoint) ==
    LET fields == StatusFields(endpoint)
        read == Len(snapshot.values) + 1
        values == Append(snapshot.values, fields[read])
    IN  /\ snapshot.endpoint \in {"none", endpoint}
        /\ IF read = Len(fields)
           THEN /\ snapshot' = NoRequest
                /\ http_response' = [code |-> 200,
                                     body |-> StatusBodyOf(endpoint, values)]
           ELSE /\ snapshot' = [endpoint |-> endpoint, values |-> values]
                /\ http_response' = NoResponse
        /\ last_op' = endpoint
        /\ UNCHANGED <<callVars, ledVars, dbVars>>
        /\ ThreadStepFrame
        /\ UNCHANGED <<fallVars, emergencyVars, assistanceVars, sampleObsVars,
                       events, unannounced, arrived, worker_pc>>

(***************************************************************************)
(* Vision unit: proximity alerts from one inference cycle                  *)
(***************************************************************************)
\* mutation: the allow-list is not applied, every class the detector names
\* counts as relevant
relevant_classes_everything == {"person", "chair", "kite"}

\* the lines of the file relevant__classes
relevant_classes == {"person", "chair"}

\* estimate_distance_category: the category of a box of the given height
estimate_distance_category(box_height, frame_height) ==
    IF 10 * box_height > CRITICAL_DISTANCE * frame_height THEN "critical"
    ELSE IF 10 * box_height > WARNING_DISTANCE * frame_height THEN "warning"
    ELSE "far"

\* get_direction with the two sides named the wrong way round
get_direction_mirrored(twice_center_x, frame_width) ==
    LET distance == IF twice_center_x >= frame_width
                    THEN twice_center_x - frame_width
                    ELSE frame_width - twice_center_x
    IN  IF 100 * distance < 2 * DeadzonePercent * frame_width THEN "ahead"
        ELSE IF twice_center_x < frame_width THEN "on your right"
        ELSE "on your left"

\* get_direction, on twice the centre (x1 + x2) so that halves stay integers:
\* abs(box_center_x - frame_width / 2) < frame_width * 0.15
get_direction(twice_center_x, frame_width) ==
    LET distance == IF twice_center_x >= frame_width
                    THEN twice_center_x - frame_width
                    ELSE frame_width - twice_center_x
    IN  IF 100 * distance < 2 * DeadzonePercent * frame_width THEN "ahead"
        ELSE IF twice_center_x < frame_width THEN "on your left"
        ELSE "on your right"

\* generate_proximity_alert: the text, kept as its three parts
generate_proximity_alert(cls_name, distance_category, direction) ==
    <<cls_name,
      CASE distance_category = "critical" -> "very close"
        [] distance_category = "warning" -> "approaching"
        [] OTHER -> "in the distance",
      direction>>

\* alert_key = f"{cls_name}_{direction}"
alert_key(cls_name, direction) == <<cls_name, direction>>

\* mutation: the cooldown comparison is not strict
ProximityAlertDueInclusive(last_alert, current_time) ==
    current_time - last_alert >= alert_cooldown

\* mutation: the window has no length, only a second alert at the very same
\* time is held back
ProximityAlertDueAtOnce(last_alert, current_time) ==
    current_time - last_alert > 0

\* run.py:278
ProximityAlertDue(last_alert, current_time) ==
    current_time - last_alert > alert_cooldown

\* the body of "for box in results[0].boxes" for one box; acc carries what
\* the loop has built so far
ProcessBox(box, acc, current_time) ==
    LET cls_name == box.cls
        scene == [acc.scene EXCEPT ![cls_name] = @ + 1]
        box_height == box.y2 - box.y1
        distance_cat == estimate_distance_category(box_height, FrameHeight)
        direction == get_direction(box.x1 + box.x2, FrameWidth)
        detection_data == [name |-> cls_name, distance |-> distance_cat,
                           distance_score |-> box_height, direction |-> direction]
        key == alert_key(cls_name, direction)
        last_alert == acc.last_alert_time[key]
        due == ProximityAlertDue(last_alert, current_time)
        alert_text == generate_proximity_alert(cls_name, distance_cat, direction)
    IN  IF cls_name \notin relevant_classes
        THEN [acc EXCEPT !.scene = scene]
        ELSE IF distance_cat \notin {"critical", "warning"}
        THEN [acc EXCEPT !.scene = scene,
                         !.detections = Append(@, detection_data)]
        ELSE IF ~due
        THEN [acc EXCEPT !.scene = scene,
                         !.detections = Append(@, detection_data),
                         !.cands = Append(@, [key |-> <<"proximity", cls_name, direction>>,
                                              at |-> current_time,
                                              last |-> last_alert,
                                              accepted |-> FALSE,
                                              severity |-> distance_cat,
                                              text |-> alert_text])]
        ELSE [acc EXCEPT !.scene = scene,
                         !.detections = Append(@, detection_data),
                         !.proximity_alerts = Append(@, <<distance_cat, alert_text>>),
                         !.last_alert_time = [@ EXCEPT ![key] = current_time],
                         !.log = IF session_id # None
                                 THEN Append(@, <<cls_name, distance_cat, direction,
                                                  alert_text>>)
                                 ELSE @,
                         !.cands = Append(@, [key |-> <<"proximity", cls_name, direction>>,
                                              at |-> current_time,
                                              last |-> last_alert,
                                              accepted |-> TRUE,
                                              severity |-> distance_cat,
                                              text |-> alert_text])]

RECURSIVE ProcessBoxes(_, _, _)
ProcessBoxes(boxes, acc, current_time) ==
    IF boxes = << >> THEN acc
    ELSE ProcessBoxes(Tail(boxes), ProcessBox(Head(boxes), acc, current_time),
                      current_time)

\* mutation: the alerts are spoken in detection order
MostCriticalFirstUnsorted(proximity_alerts) == proximity_alerts[1]

\* proximity_alerts.sort(key=lambda x: 0 if x[0] == "critical" else 1) and
\* proximity_alerts[0]: the sort is stable, so this is the first critical alert
\* when there is one and the first alert otherwise
MostCriticalFirst(proximity_alerts) ==
    LET criticals == {i \in DOMAIN proximity_alerts :
                         proximity_alerts[i][1] = "critical"}
    IN  IF criticals = {} THEN proximity_alerts[1]
        ELSE proximity_alerts[CHOOSE i \in criticals : \A j \in criticals : i <= j]

Classes == relevant_classes \cup {"kite"}

\* process_frame on a frame in which the detector finds the given boxes
process_frame(boxes) ==
    LET current_time == now
        start == [scene |-> [c \in Classes |-> 0],
                  detections |-> << >>,
                  proximity_alerts |-> << >>,
                  last_alert_time |-> last_alert_time,
                  log |-> << >>,
                  cands |-> << >>]
        done == ProcessBoxes(boxes, start, current_time)
    IN  /\ last_op' = "process_frame"
        /\ UNCHANGED <<callVars, ledVars, dbVars>>
        /\ http_response' = NoResponse
        /\ UNCHANGED arrived
        /\ UNCHANGED <<threadVars, speechVars>>
        /\ UNCHANGED unannounced
        /\ IF current_time - last_inference_time >= inference_interval
           THEN /\ last_inference_time' = current_time
                /\ scene_objects' = done.scene
                /\ current_detections' = done.detections
                /\ last_alert_time' = done.last_alert_time
                /\ log_calls' = done.log
                /\ cands' = done.cands
                /\ speak_calls' =
                      IF done.proximity_alerts # << >>
                      THEN << MostCriticalFirst(done.proximity_alerts)[2] >>
                      ELSE << >>
           ELSE /\ UNCHANGED proximityVars
                /\ log_calls' = << >>
                /\ cands' = << >>
                /\ speak_calls' = << >>
        /\ UNCHANGED <<now, horizon, hubAll, session_id, pollVars, path, streak,
                       poll_log>>

(***************************************************************************)
(* Vision unit: the data logger (data_logger.py)                           *)
(***************************************************************************)
\* the tables as _init_database creates them; stamps counts the readings of
\* datetime.now() written so far: a later reading is a later time (the wall
\* clock is taken not to step back between two writes), and the model keeps
\* that order and nothing else of the time
EmptyDb == [sessions |-> << >>, detections |-> << >>, alerts |-> << >>,
            stamps |-> 0]

\* start_session: a row with a start time and the defaults of the other
\* columns; the id returned is the row's position, Len(d.sessions) + 1
start_session(d) ==
    [d EXCEPT !.sessions = Append(@, [start_time |-> d.stamps + 1,
                                      end_time |-> None,
                                      total_detections |-> 0,
                                      total_alerts |-> 0,
                                      critical_alerts |-> 0]),
              !.stamps = @ + 1]

\* log_detection and log_alert: one row under the session id given
log_detection(d, id) ==
    [d EXCEPT !.detections = Append(@, [session_id |-> id]),
              !.stamps = @ + 1]

log_alert(d, id, distance_category) ==
    [d EXCEPT !.alerts = Append(@, [session_id |-> id,
                                    distance_category |-> distance_category]),
              !.stamps = @ + 1]

\* mutation: the critical alerts are counted over all sessions
end_session_counts_every_session(d, id) ==
    LET OfSession(row) == row.session_id = id
        Critical(row) == row.distance_category = "critical"
    IN  IF id \notin DOMAIN d.sessions THEN d
        ELSE [d EXCEPT
                !.sessions[id] =
                    [@ EXCEPT !.end_time = d.stamps + 1,
                              !.total_detections =
                                  Len(SelectSeq(d.detections, OfSession)),
                              !.total_alerts = Len(SelectSeq(d.alerts, OfSession)),
                              !.critical_alerts =
                                  Len(SelectSeq(d.alerts, Critical))],
                !.stamps = @ + 1]

\* end_session: nothing for an id without a row; otherwise the end time and
\* the three counts over the rows of that session
end_session(d, id) ==
    LET OfSession(row) == row.session_id = id
        CriticalOfSession(row) ==
            row.session_id = id /\ row.distance_category = "critical"
    IN  IF id \notin DOMAIN d.sessions THEN d
        ELSE [d EXCEPT
                !.sessions[id] =
                    [@ EXCEPT !.end_time = d.stamps + 1,
                              !.total_detections =
                                  Len(SelectSeq(d.detections, OfSession)),
                              !.total_alerts = Len(SelectSeq(d.alerts, OfSession)),
                              !.critical_alerts =
                                  Len(SelectSeq(d.alerts, CriticalOfSession))],
                !.stamps = @ + 1]

\* get_current_session: WHERE end_time IS NULL ORDER BY start_time DESC
\* LIMIT 1, None when no row qualifies
get_current_session(d) ==
    LET open == {i \in DOMAIN d.sessions : d.sessions[i].end_time = None}
    IN  IF open = {} THEN None
        ELSE CHOOSE i \in open :
                \A j \in open :
                    d.sessions[i].start_time >= d.sessions[j].start_time

\* what the steps below leave alone
LoggerFrame ==
    UNCHANGED <<now, horizon, hubAll, unannounced, arrived, threadVars,
                callVars, ledVars, proximityVars, pollVars, visionObsVars>>

\* run() up to its loop: the session is opened and the greeting handed to
\* speak()
run_start ==
    /\ loop_pc = "process_frame"
    /\ session_id = None
    /\ Len(db.sessions) < MaxSessions
    /\ db' = start_session(db)
    /\ session_id' = Len(db.sessions) + 1
    /\ speech_threads' = Append(speech_threads,
                                [text |-> "Vision assistant started",
                                 priority |-> TRUE, at |-> "start"])
    /\ last_op' = "start_session"
    /\ http_response' = NoResponse
    /\ UNCHANGED <<tts_lock, loopVars>>
    /\ LoggerFrame

\* the loop logs a detection (run.py:260-261)
LogDetection ==
    /\ loop_pc = "process_frame"
    /\ session_id # None
    /\ Len(db.detections) + Len(db.alerts) < MaxDbRows
    /\ db' = log_detection(db, session_id)
    /\ last_op' = "log_detection"
    /\ http_response' = NoResponse
    /\ UNCHANGED <<session_id, speechVars, loopVars>>
    /\ LoggerFrame

\* the loop logs an alert of the given category (run.py:288-291, 343-350)
LogAlert(distance_category) ==
    /\ loop_pc = "process_frame"
    /\ session_id # None
    /\ Len(db.detections) + Len(db.alerts) < MaxDbRows
    /\ db' = log_alert(db, session_id, distance_category)
    /\ last_op' = "log_alert"
    /\ http_response' = NoResponse
    /\ UNCHANGED <<session_id, speechVars, loopVars>>
    /\ LoggerFrame

\* the process is killed or loses power inside its loop: no cleanup runs
ProcessKilled ==
    /\ loop_pc = "process_frame"
    /\ session_id # None
    /\ loop_pc' = "exited"
    /\ speech_threads' = [t \in DOMAIN speech_threads |->
                             IF speech_threads[t].at = "done"
                             THEN speech_threads[t]
                             ELSE [speech_threads[t] EXCEPT !.at = "killed"]]
    /\ last_op' = "killed"
    /\ http_response' = NoResponse
    /\ UNCHANGED <<session_id, tts_lock, pass_log, dbVars>>
    /\ LoggerFrame

\* the program is started again on the same database: __init__
NewProcess ==
    /\ loop_pc = "exited"
    /\ loop_pc' = "process_frame"
    /\ session_id' = None
    /\ speech_threads' = << >>
    /\ tts_lock' = NoThread
    /\ last_op' = "VisionAssistant"
    /\ http_response' = NoResponse
    /\ UNCHANGED <<pass_log, dbVars>>
    /\ LoggerFrame

\* GET /api/status of backend_api.py
get_status ==
    LET current_session == get_current_session(db)
    IN  /\ http_response' =
              [code |-> 200,
               body |-> [status |-> IF current_session # None /\ current_session # 0
                                    THEN "active" ELSE "inactive",
                         current_session_id |-> current_session]]
        /\ last_op' = "get_status"
        /\ UNCHANGED <<session_id, speechVars, loopVars, dbVars>>
        /\ LoggerFrame

(***************************************************************************)
(* Vision unit: voice commands                                             *)
(***************************************************************************)
\* "word" in command, the command taken as the words recognised in it
InCommand(word, command) == \E i \in DOMAIN command : command[i] = word

\* summarize_scene: the people counted, the furniture and the vehicles among
\* the classes tallied, or failing all three the classes themselves
summarize_scene ==
    LET tallied == {c \in DOMAIN scene_objects : scene_objects[c] > 0}
        people_count == scene_objects["person"]
        furniture == tallied \cap {"chair", "couch", "bed", "dining table", "bench"}
        vehicles == tallied \cap {"car", "bus", "truck", "motorcycle", "bicycle"}
    IN  IF tallied = {} THEN <<"No objects detected in view">>
        ELSE IF people_count = 0 /\ furniture = {} /\ vehicles = {}
        THEN <<"Scene", "Objects", tallied>>
        ELSE <<"Scene", people_count, furniture, vehicles>>

\* [d for d in self.current_detections if d['direction'] == "ahead"]
AheadObjects ==
    LET IsAhead(d) == d.direction = "ahead"
    IN  SelectSeq(current_detections, IsAhead)

\* min(ahead_objects, key=lambda x: x['distance_score']): the first of the
\* objects whose score no other goes below
MinByDistanceScore(objects) ==
    objects[CHOOSE i \in DOMAIN objects :
               \A j \in DOMAIN objects :
                   /\ objects[i].distance_score <= objects[j].distance_score
                   /\ objects[j].distance_score = objects[i].distance_score
                         => i <= j]

\* the response handle_voice_command builds for a command that is not empty
VoiceResponse(command) ==
    IF InCommand("describe", command) \/ InCommand("what", command)
          \/ InCommand("scene", command)
    THEN summarize_scene
    ELSE IF InCommand("ahead", command) \/ InCommand("front", command)
    THEN IF AheadObjects # << >>
         THEN LET closest == MinByDistanceScore(AheadObjects)
              IN  <<closest.name, closest.distance, "ahead">>
         ELSE <<"Path ahead is clear">>
    ELSE IF InCommand("help", command)
    THEN <<"Say describe scene to hear what's around you, or what's ahead to check your path">>
    ELSE << >>

\* handle_voice_command(command): nothing for an empty command, otherwise the
\* response is spoken, unless the command was not understood, and returned
\* to the log of voice commands
handle_voice_command(command) ==
    LET response == VoiceResponse(command)
    IN  /\ call_args' = command
        /\ call_result' = IF command = << >> THEN << >> ELSE response
        /\ speak_calls' = IF command = << >> \/ response = << >>
                          THEN << >> ELSE << response >>
        /\ log_calls' = << >>
        /\ cands' = << >>
        /\ last_op' = "handle_voice_command"
        /\ http_response' = NoResponse
        /\ UNCHANGED <<now, horizon, hubAll, unannounced, arrived, threadVars,
                       speechVars, loopVars, ledVars, dbVars, session_id,
                       proximityVars,
                       pollVars, path, streak, poll_log>>

(***************************************************************************)
(* Vision unit: speak() and the threads it starts                          *)
(***************************************************************************)
\* what the steps of speak() and of its threads leave alone
SpeechFrame ==
    /\ http_response' = NoResponse
    /\ UNCHANGED <<now, horizon, hubAll, visionAll, unannounced, arrived,
                   threadVars, loopVars>>

\* mutation: the announcement is made in the caller's own thread, which has to
\* take the lock before it returns
speak_in_caller(text, priority) ==
    /\ Len(speech_threads) < MaxSpeechThreads
    /\ tts_lock = NoThread
    /\ speech_threads' = Append(speech_threads,
                                [text |-> text, priority |-> priority, at |-> "say"])
    /\ tts_lock' = Len(speech_threads) + 1
    /\ last_op' = "speak"
    /\ UNCHANGED <<callVars, ledVars, dbVars>>
    /\ SpeechFrame

\* speak(text, priority): a daemon thread running _speak is started and the
\* call returns
speak(text, priority) ==
    /\ Len(speech_threads) < MaxSpeechThreads
    /\ speech_threads' = Append(speech_threads,
                                [text |-> text, priority |-> priority, at |-> "start"])
    /\ UNCHANGED tts_lock
    /\ last_op' = "speak"
    /\ UNCHANGED <<callVars, ledVars, dbVars>>
    /\ SpeechFrame

\* mutation: the thread goes on to the engine without taking the lock
SpeechAcquireUnlocked(thread) ==
    /\ thread \in DOMAIN speech_threads
    /\ speech_threads[thread].at = "start"
    /\ speech_threads' = [speech_threads EXCEPT ![thread].at = "say"]
    /\ UNCHANGED tts_lock
    /\ last_op' = "_speak"
    /\ UNCHANGED <<callVars, ledVars, dbVars>>
    /\ SpeechFrame

\* _speak, "with self.tts_lock": the thread waits until the lock is free and
\* takes it
SpeechAcquire(thread) ==
    /\ thread \in DOMAIN speech_threads
    /\ speech_threads[thread].at = "start"
    /\ tts_lock = NoThread
    /\ tts_lock' = thread
    /\ speech_threads' = [speech_threads EXCEPT ![thread].at = "say"]
    /\ last_op' = "_speak"
    /\ UNCHANGED <<callVars, ledVars, dbVars>>
    /\ SpeechFrame

\* _speak, self.tts_engine.say(text)
SpeechSay(thread) ==
    /\ thread \in DOMAIN speech_threads
    /\ speech_threads[thread].at = "say"
    /\ speech_threads' = [speech_threads EXCEPT ![thread].at = "runAndWait"]
    /\ UNCHANGED tts_lock
    /\ last_op' = "_speak"
    /\ UNCHANGED <<callVars, ledVars, dbVars>>
    /\ SpeechFrame

\* _speak, self.tts_engine.runAndWait() returns and the with block is left
SpeechRelease(thread) ==
    /\ thread \in DOMAIN speech_threads
    /\ speech_threads[thread].at = "runAndWait"
    /\ speech_threads' = [speech_threads EXCEPT ![thread].at = "done"]
    /\ tts_lock' = IF tts_lock = thread THEN NoThread ELSE tts_lock
    /\ last_op' = "_speak"
    /\ UNCHANGED <<callVars, ledVars, dbVars>>
    /\ SpeechFrame

\* mutation: the lock is taken and given back by hand, and the exception
\* leaves the thread before it is given back
SpeechRaiseKeepsLock(thread) ==
    /\ thread \in DOMAIN speech_threads
    /\ speech_threads[thread].at \in {"say", "runAndWait"}
    /\ speech_threads' = [speech_threads EXCEPT ![thread].at = "failed"]
    /\ UNCHANGED tts_lock
    /\ last_op' = "_speak"
    /\ UNCHANGED <<callVars, ledVars, dbVars>>
    /\ SpeechFrame

\* _speak, tts_engine.say or tts_engine.runAndWait raises: the exception
\* leaves the with block, which gives the lock back, and ends the thread
SpeechRaise(thread) ==
    /\ thread \in DOMAIN speech_threads
    /\ speech_threads[thread].at \in {"say", "runAndWait"}
    /\ speech_threads' = [speech_threads EXCEPT ![thread].at = "failed"]
    /\ tts_lock' = IF tts_lock = thread THEN NoThread ELSE tts_lock
    /\ last_op' = "_speak"
    /\ UNCHANGED <<callVars, ledVars, dbVars>>
    /\ SpeechFrame

\* cleanup(), entered from the finally of run() once the loop is left: the
\* session is ended, the farewell is handed to speak() like any other text,
\* and the method returns
cleanup ==
    /\ loop_pc \notin {"cleanup", "exited"}
    /\ Len(speech_threads) < MaxSpeechThreads
    /\ speech_threads' = Append(speech_threads,
                                [text |-> "Vision assistant stopping",
                                 priority |-> TRUE, at |-> "start"])
    /\ db' = IF session_id # None THEN end_session(db, session_id) ELSE db
    /\ loop_pc' = "cleanup"
    /\ last_op' = "cleanup"
    /\ http_response' = NoResponse
    /\ UNCHANGED <<now, horizon, hubAll, visionAll, unannounced, arrived,
                   threadVars, tts_lock, pass_log, callVars, ledVars>>

\* run() has returned and the main thread ends: the interpreter exits without
\* waiting for daemon threads, so every _speak thread that has not finished
\* stops where it is
ProcessExit ==
    /\ loop_pc = "cleanup"
    /\ loop_pc' = "exited"
    /\ speech_threads' = [t \in DOMAIN speech_threads |->
                             IF speech_threads[t].at = "done"
                             THEN speech_threads[t]
                             ELSE [speech_threads[t] EXCEPT !.at = "killed"]]
    /\ last_op' = "exit"
    /\ http_response' = NoResponse
    /\ UNCHANGED <<now, horizon, hubAll, visionAll, unannounced, arrived,
                   threadVars, tts_lock, pass_log, callVars, ledVars, dbVars>>

(***************************************************************************)
(* Vision unit: remote status polling                                      *)
(***************************************************************************)
FallAlertMessage == "Warning! Fall detected! Patient may need assistance!"
EmergencyAlertMessage ==
    "EMERGENCY! Patient pressed emergency button! Immediate assistance required!"

\* the assistance_messages table of check_assistance_status
assistance_messages ==
    [t \in {"General Help", "Bathroom", "Food/Water", "Medication"} |->
        CASE t = "General Help" -> "Attention! Patient requesting general assistance!"
          [] t = "Bathroom" -> "Alert! Patient needs bathroom assistance immediately!"
          [] t = "Food/Water" -> "Patient is requesting food or water!"
          [] OTHER -> "Important! Patient needs medication!"]

\* mutation: the next poll waits until more than the interval has passed
PollDueLate(last_check, interval, current_time) ==
    current_time - last_check > interval

\* the test that opens each of the three checks (run.py:319, 363, 407): the
\* check returns at once unless the interval has passed since its last poll
PollDue(last_check, interval, current_time) ==
    ~(current_time - last_check < interval)

\* mutation: the fall warning is given once and never repeated
FallAlertDueOnce(current_time) ==
    last_fall_alert_time = 0

\* run.py:332
FallAlertDue(current_time) ==
    current_time - last_fall_alert_time > fall_alert_cooldown

\* mutation: the cooldown comparison is not strict
EmergencyAlertDueInclusive(current_time) ==
    current_time - last_emergency_alert_time >= emergency_alert_cooldown

\* run.py:376
EmergencyAlertDue(current_time) ==
    current_time - last_emergency_alert_time > emergency_alert_cooldown

\* run.py:423
AssistanceAlertDue(last_alert, current_time) ==
    current_time - last_alert > assistance_alert_cooldown

\* what a poll leaves in the observation variables when it looked at a
\* candidate for the given key
Candidate(key, last, accepted, severity, text) ==
    << [key |-> key, at |-> now, last |-> last, accepted |-> accepted,
        severity |-> severity, text |-> text] >>

\* alerts accepted in the current run of active answers
Streak(answered, active, accepted) ==
    IF ~answered THEN streak
    ELSE IF ~active THEN 0
    ELSE IF accepted THEN streak + 1
    ELSE streak

\* check_fall_status; ok: the request came back with status 200 and a JSON
\* body, whose field fall_detected is then the second argument
check_fall_status(ok, data_fall_detected) ==
    LET current_time == now
        polled == PollDue(last_fall_check, fall_check_interval, current_time)
        active == polled /\ ok /\ data_fall_detected
        accepted == active /\ FallAlertDue(current_time)
    IN  /\ last_op' = "check_fall_status"
        /\ UNCHANGED <<callVars, ledVars, dbVars>>
        /\ http_response' = NoResponse
        /\ UNCHANGED arrived
        /\ UNCHANGED <<threadVars, speechVars>>
        /\ unannounced' = IF accepted THEN unannounced \ {"fall"} ELSE unannounced
        /\ last_fall_check' = IF polled THEN current_time ELSE last_fall_check
        /\ last_fall_alert_time' =
              IF accepted THEN current_time ELSE last_fall_alert_time
        /\ speak_calls' = IF accepted THEN << FallAlertMessage >> ELSE << >>
        /\ log_calls' =
              IF accepted /\ session_id # None
              THEN << <<"Fall Detection", "critical", "system", FallAlertMessage>> >>
              ELSE << >>
        /\ cands' = IF active
                    THEN Candidate(<<"fall">>, last_fall_alert_time, accepted,
                                   "critical", FallAlertMessage)
                    ELSE << >>
        /\ streak' = Streak(polled /\ ok, active, accepted)
        /\ UNCHANGED <<now, horizon, hubAll, session_id, proximityVars,
                       last_emergency_check, last_emergency_alert_time,
                       emergency_alert_cooldown, last_assistance_check,
                       last_assistance_alert_time, path, poll_log>>

\* check_emergency_status, as check_fall_status
check_emergency_status(ok, data_emergency_active) ==
    LET current_time == now
        polled == PollDue(last_emergency_check, emergency_check_interval,
                          current_time)
        active == polled /\ ok /\ data_emergency_active
        accepted == active /\ EmergencyAlertDue(current_time)
    IN  /\ last_op' = "check_emergency_status"
        /\ UNCHANGED <<callVars, ledVars, dbVars>>
        /\ http_response' = NoResponse
        /\ UNCHANGED arrived
        /\ UNCHANGED <<threadVars, speechVars>>
        /\ unannounced' = IF accepted THEN unannounced \ {"emergency"}
                          ELSE unannounced
        /\ last_emergency_check' =
              IF polled THEN current_time ELSE last_emergency_check
        /\ last_emergency_alert_time' =
              IF accepted THEN current_time ELSE last_emergency_alert_time
        /\ speak_calls' = IF accepted THEN << EmergencyAlertMessage >> ELSE << >>
        /\ log_calls' =
              IF accepted /\ session_id # None
              THEN << <<"Emergency SOS", "critical", "emergency_button",
                        EmergencyAlertMessage>> >>
              ELSE << >>
        /\ cands' = IF active
                    THEN Candidate(<<"emergency">>, last_emergency_alert_time, accepted,
                                   "critical", EmergencyAlertMessage)
                    ELSE << >>
        /\ streak' = Streak(polled /\ ok, active, accepted)
        /\ poll_log' =
              IF polled /\ path = "emergency, both stations"
                 /\ Len(poll_log) < MaxPolls
              THEN Append(poll_log, [at |-> current_time, ok |-> ok,
                                     active |-> active, accepted |-> accepted])
              ELSE poll_log
        /\ UNCHANGED <<now, horizon, hubAll, session_id, proximityVars,
                       last_fall_check, last_fall_alert_time,
                       emergency_alert_cooldown, last_assistance_check,
                       last_assistance_alert_time, path>>

\* check_assistance_status; the body's fields assistance_active and
\* assistance_type are the second and third arguments
check_assistance_status(ok, data_assistance_active, data_assistance_type) ==
    LET current_time == now
        polled == PollDue(last_assistance_check, assistance_check_interval,
                          current_time)
        assistance_type == data_assistance_type
        active == /\ polled /\ ok /\ data_assistance_active
                  /\ assistance_type # NoneType
        last_alert == IF active THEN last_assistance_alert_time[assistance_type]
                      ELSE 0
        accepted == active /\ AssistanceAlertDue(last_alert, current_time)
        message == IF active THEN assistance_messages[assistance_type] ELSE ""
    IN  /\ last_op' = "check_assistance_status"
        /\ UNCHANGED <<callVars, ledVars, dbVars>>
        /\ http_response' = NoResponse
        /\ UNCHANGED arrived
        /\ UNCHANGED <<threadVars, speechVars>>
        /\ UNCHANGED unannounced
        /\ last_assistance_check' =
              IF polled THEN current_time ELSE last_assistance_check
        /\ last_assistance_alert_time' =
              IF accepted
              THEN [last_assistance_alert_time EXCEPT ![assistance_type] = current_time]
              ELSE last_assistance_alert_time
        /\ speak_calls' = IF accepted THEN << message >> ELSE << >>
        /\ log_calls' =
              IF accepted /\ session_id # None
              THEN << <<assistance_type, "warning", "assistance_request", message>> >>
              ELSE << >>
        /\ cands' = IF active
                    THEN Candidate(<<"assistance", assistance_type>>, last_alert,
                                   accepted, "warning", message)
                    ELSE << >>
        /\ streak' = Streak(polled /\ ok, active, accepted)
        /\ UNCHANGED <<now, horizon, hubAll, session_id, proximityVars,
                       last_fall_check, last_fall_alert_time,
                       last_emergency_check, last_emergency_alert_time,
                       emergency_alert_cooldown, path, poll_log>>

(***************************************************************************)
(* Vision unit: the main loop of run()                                     *)
(***************************************************************************)
\* mutation: a pass that has spoken a proximity alert makes no further call
NextCallCapped(call) ==
    CASE call = "process_frame" ->
            IF speak_calls' # << >> THEN "process_frame" ELSE "check_fall_status"
      [] call = "check_fall_status" -> "check_emergency_status"
      [] call = "check_emergency_status" -> "check_assistance_status"
      [] OTHER -> "process_frame"

\* mutation: a poll that fails ends the pass
NextCallEndsOnFailure(call) ==
    IF call # "process_frame" /\ ~pass_log'[Len(pass_log')].ok
    THEN "process_frame"
    ELSE CASE call = "process_frame" -> "check_fall_status"
           [] call = "check_fall_status" -> "check_emergency_status"
           [] call = "check_emergency_status" -> "check_assistance_status"
           [] OTHER -> "process_frame"

\* the call the loop makes after the given one (run.py:504-513, then back to
\* the top of the loop)
NextCall(call) ==
    CASE call = "process_frame" -> "check_fall_status"
      [] call = "check_fall_status" -> "check_emergency_status"
      [] call = "check_emergency_status" -> "check_assistance_status"
      [] OTHER -> "process_frame"

\* one call of the loop's body: the handler runs, the pass notes whether it
\* was due, whether the hub answered, the candidates it looked at and what it
\* passed to speak(), and the loop moves on
LoopCall(call, handler, due, ok) ==
    /\ loop_pc = call
    /\ handler
    /\ pass_log' = Append(IF call = "process_frame" THEN << >> ELSE pass_log,
                          [call |-> call, due |-> due, ok |-> ok,
                           cands |-> cands', spoke |-> speak_calls'])
    /\ loop_pc' = NextCall(call)

\* mutation: after a failed frame read the loop goes on to the status checks
FrameReadFailedStillPolls ==
    /\ loop_pc = "process_frame"
    /\ pass_log' = << >>
    /\ loop_pc' = "check_fall_status"
    /\ last_op' = "run"
    /\ UNCHANGED <<callVars, ledVars, dbVars>>
    /\ http_response' = NoResponse
    /\ speak_calls' = << >>
    /\ log_calls' = << >>
    /\ cands' = << >>
    /\ UNCHANGED <<now, horizon, hubAll, unannounced, arrived, threadVars,
                   speechVars, session_id, proximityVars, pollVars, path, streak,
                   poll_log>>

\* run.py:497-501: no frame could be read from the stream; the loop sleeps
\* and starts over
FrameReadFailed ==
    /\ loop_pc = "process_frame"
    /\ pass_log' = << >>
    /\ UNCHANGED loop_pc
    /\ last_op' = "run"
    /\ UNCHANGED <<callVars, ledVars, dbVars>>
    /\ http_response' = NoResponse
    /\ speak_calls' = << >>
    /\ log_calls' = << >>
    /\ cands' = << >>
    /\ UNCHANGED <<now, horizon, hubAll, unannounced, arrived, threadVars,
                   speechVars, session_id, proximityVars, pollVars, path, streak,
                   poll_log>>

\* the attributes __init__ sets, but for session_id
VisionAttributes ==
    /\ last_inference_time = 0
    /\ last_alert_time = [k \in Classes \X {"ahead", "on your left", "on your right"}
                             |-> 0]
    /\ current_detections = << >>
    /\ scene_objects = [c \in Classes |-> 0]
    /\ last_fall_check = 0
    /\ last_fall_alert_time = 0
    /\ last_emergency_check = 0
    /\ last_emergency_alert_time = 0
    /\ last_assistance_check = 0
    /\ last_assistance_alert_time = [t \in DOMAIN assistance_messages |-> 0]
    /\ speak_calls = << >>
    /\ log_calls = << >>
    /\ cands = << >>
    /\ streak = 0
    /\ poll_log = << >>
    /\ tts_lock = NoThread
    /\ speech_threads = << >>
    /\ loop_pc = "process_frame"
    /\ pass_log = << >>
    /\ call_result = NoCall

\* the vision unit inside its loop: the attributes as __init__ set them and
\* the session that run() has opened in a new database
VisionInit ==
    /\ VisionAttributes
    /\ session_id = 1
    /\ db = start_session(EmptyDb)

\* the hub after its fall classifier has fired prior_falls times, each time on
\* the second of two samples with impact and rotation taken as soon as the
\* cooldown of the fall before was over, and the clock has then gone past the
\* cooldown of the last; prior_falls = 0 is the hub as the module leaves it
HubInitAfter(prior_falls) ==
    LET period == fall_cooldown + 1
        recorded == [i \in 1..prior_falls |->
                        [timestamp |-> StartTime + period * (i - 1),
                         acceleration |-> 21, rotation |-> 151]]
    IN  /\ now = StartTime + period * prior_falls
        /\ consecutive_readings = 0
        /\ fall_detected = (prior_falls > 0)
        /\ fall_timestamp = IF prior_falls > 0
                            THEN StartTime + period * (prior_falls - 1)
                            ELSE None
        /\ fall_history = recorded
        /\ emergency_active = FALSE
        /\ emergency_timestamp = None
        /\ emergency_history = << >>
        /\ assistance_request = NoneType
        /\ assistance_timestamp = None
        /\ assistance_history = << >>
        /\ environmental_data = [fields |-> {"temperature", "humidity", "pressure",
                                             "last_update"},
                                 last_update |-> None]
        /\ last_op = IF prior_falls > 0 THEN "tick" ELSE "init"
        /\ sample_obs = [signal |-> prior_falls > 0, prev |-> prior_falls > 0,
                         fired |-> prior_falls > 0]
        /\ freefall_samples = 0
        /\ tumble_samples = Min(2 * prior_falls, 3)
        /\ quiet_after = FALSE
        /\ pos_split = FALSE
        /\ events = 0
        /\ unannounced = IF prior_falls > 0 THEN {"fall"} ELSE {}
        /\ http_response = NoResponse
        /\ arrived = [fall |-> recorded, emergency |-> << >>,
                      assistance |-> << >>]
        /\ worker_pc = [fall |-> IdleFallWorker, stick |-> IdleStickWorker]
        /\ snapshot = NoRequest
        /\ led = LedAtCheck(0)

HubInit == HubInitAfter(0)

(***************************************************************************)
(* The fall classifier alone: samples, acknowledgments, the clock          *)
(***************************************************************************)
Quiet == VisionInit /\ path = "none" /\ call_args = NoCall
              /\ emergency_alert_cooldown = EmergencyAlertCooldownDefault

FallInit == HubInit /\ Quiet /\ horizon = StartTime + FallHorizon

FallNext ==
    \/ \E a \in AccelValues, g \in GyroValues :
          FallSample(a, g) /\ UNCHANGED events
    \/ fall_acknowledge
    \/ Tick

SpecFall == FallInit /\ [][FallNext]_vars

(***************************************************************************)
(* The fall classifier with a sensor whose reads can fail                  *)
(***************************************************************************)
FaultHorizon == 2

\* a freefall sample and a quiet one
FaultReadings == {<<5, 150>>, <<10, 150>>}

FaultInit == HubInit /\ Quiet /\ horizon = StartTime + FaultHorizon

FaultNext ==
    \/ \E r \in FaultReadings : FallSample(r[1], r[2]) /\ UNCHANGED events
    \/ FallSampleFailed
    \/ fall_acknowledge
    \/ Tick

SpecFallFaults == FaultInit /\ [][FaultNext]_vars

(***************************************************************************)
(* The fall classifier under a signal that stays positive: every sample is *)
(* a freefall or a tumble, for longer than two cooldowns                   *)
(***************************************************************************)
SustainedHorizon == 22

SustainedReadings == {<<5, 150>>, <<21, 151>>}

SustainedInit == HubInit /\ Quiet /\ horizon = StartTime + SustainedHorizon

SustainedNext ==
    \/ \E r \in SustainedReadings : FallSample(r[1], r[2]) /\ UNCHANGED events
    \/ fall_acknowledge
    \/ Tick

SpecSustained == SustainedInit /\ [][SustainedNext]_vars

(***************************************************************************)
(* The whole hub: the three workers and every endpoint                     *)
(***************************************************************************)
\* readings in a run of the whole hub: freefall, quiet, impact with rotation
HubReadings == {<<5, 150>>, <<10, 150>>, <<21, 151>>}

StatusEndpoints == {"fall_status", "get_emergency_status", "get_assistance_status",
                    "get_environmental"}

HubInitial == HubInit /\ Quiet /\ horizon = StartTime + HubHorizon

HubNext ==
    \/ \E r \in HubReadings : Counted(FallSample(r[1], r[2]), MaxHubEvents)
    \/ \E action \in StickActions, direction \in StickDirections :
          Counted(StickEvent(action, direction), MaxHubEvents)
    \/ Counted(EnvSample, MaxHubEvents)
    \/ \E endpoint \in StatusEndpoints : StatusRead(endpoint)
    \/ fall_acknowledge
    \/ acknowledge_emergency
    \/ acknowledge_assistance
    \/ Tick

SpecHub == HubInitial /\ [][HubNext]_vars

(***************************************************************************)
(* The hub with its LED animation: the joystick, the fall worker and the   *)
(* acknowledgments run while the animation thread does                     *)
(***************************************************************************)
MaxLedEvents == 2

\* an impact with rotation, the sample that confirms a fall when repeated
LedReadings == {<<21, 151>>}

LedStickEvents == {<<"pressed", "middle">>, <<"pressed", "up">>}

LedInit == HubInit /\ Quiet /\ horizon = StartTime

LedNext ==
    \/ \E r \in LedReadings : Counted(FallSample(r[1], r[2]), MaxLedEvents)
    \/ \E e \in LedStickEvents : Counted(StickEvent(e[1], e[2]), MaxLedEvents)
    \/ fall_acknowledge
    \/ acknowledge_emergency
    \/ acknowledge_assistance
    \/ LedCheck
    \/ LedPatternFrame

SpecLed == LedInit /\ [][LedNext]_vars

(***************************************************************************)
(* The vision unit alone: each run exercises one alert source (the four    *)
(* sources share no attribute); what the detector finds and what the hub   *)
(* answers are inputs                                                      *)
(***************************************************************************)
Box(cls, x1, y1, x2, y2) == [cls |-> cls, x1 |-> x1, y1 |-> y1, x2 |-> x2, y2 |-> y2]

\* detections: a person very close ahead, a person approaching ahead, a
\* person approaching on the left, a chair approaching ahead, a person in the
\* distance, a kite (not a relevant class) very close
Boxes ==
    { Box("person", 220, 100, 420, 400), Box("person", 220, 100, 420, 300),
      Box("person", 0, 100, 200, 300), Box("chair", 220, 0, 420, 200),
      Box("person", 220, 0, 420, 150), Box("kite", 220, 100, 420, 400) }

Frames == {<< >>} \cup {<<b>> : b \in Boxes} \cup {<<b, c>> : b \in Boxes, c \in Boxes}

PolledTypes == {NoneType, "General Help", "Bathroom"}

VisionInitial ==
    /\ HubInit
    /\ VisionInit
    /\ call_args = NoCall
    /\ emergency_alert_cooldown = EmergencyAlertCooldownDefault
    /\ path \in {"proximity", "fall", "emergency", "assistance"}
    /\ horizon = StartTime + (IF path = "proximity" THEN ProximityHorizon
                              ELSE PollHorizon)

VisionNext ==
    \/ path = "proximity" /\ \E boxes \in Frames :
          process_frame(boxes) /\ UNCHANGED loopVars
    \/ path = "fall" /\ \E ok \in BOOLEAN, d \in BOOLEAN :
          check_fall_status(ok, d) /\ UNCHANGED loopVars
    \/ path = "emergency" /\ \E ok \in BOOLEAN, d \in BOOLEAN :
          check_emergency_status(ok, d) /\ UNCHANGED loopVars
    \/ path = "assistance" /\ \E ok \in BOOLEAN, d \in BOOLEAN, t \in PolledTypes :
          check_assistance_status(ok, d, t) /\ UNCHANGED loopVars
    \/ Tick

SpecVision == VisionInitial /\ [][VisionNext]_vars

(***************************************************************************)
(* Voice commands on the detections of one inference                       *)
(***************************************************************************)
\* the commands heard, as the words recognised in them; the first is silence
Commands == {<< >>, <<"describe", "scene">>, <<"what", "ahead">>, <<"ahead">>,
             <<"front">>, <<"help">>, <<"hello">>}

VoiceInit ==
    /\ HubInit
    /\ VisionInit
    /\ emergency_alert_cooldown = EmergencyAlertCooldownDefault
    /\ path = "voice"
    /\ horizon = StartTime
    /\ call_args = << >>

VoiceNext ==
    \/ \E boxes \in Frames : process_frame(boxes) /\ UNCHANGED loopVars
    \/ \E command \in Commands : handle_voice_command(command)

SpecVoice == VoiceInit /\ [][VoiceNext]_vars

(***************************************************************************)
(* The session lifecycle: the program is run, logs, is stopped or killed,  *)
(* and is run again on the same database, while the dashboard asks for     *)
(* the status                                                              *)
(***************************************************************************)
SessionsInit ==
    /\ HubInit
    /\ VisionAttributes
    /\ call_args = NoCall
    /\ emergency_alert_cooldown = EmergencyAlertCooldownDefault
    /\ path = "sessions"
    /\ horizon = StartTime
    /\ session_id = None
    /\ db = EmptyDb

SessionsNext ==
    \/ run_start
    \/ LogDetection
    \/ \E distance_category \in {"critical", "warning"} : LogAlert(distance_category)
    \/ (session_id # None /\ cleanup)
    \/ ProcessExit
    \/ ProcessKilled
    \/ NewProcess
    \/ get_status

SpecSessions == SessionsInit /\ [][SessionsNext]_vars

(***************************************************************************)
(* Both stations on the two safety-critical categories: the hub's fall     *)
(* classifier, emergency button and acknowledge endpoints, and the vision  *)
(* unit polling the hub's fall and emergency status; each run exercises    *)
(* one of the two categories (they share no variable on either station)    *)
(***************************************************************************)
\* readings in a run of both stations: quiet, impact with rotation
EndToEndReadings == {<<10, 150>>, <<21, 151>>}

EndToEndInit ==
    /\ HubInit
    /\ VisionInit
    /\ call_args = NoCall
    /\ path \in {"fall, both stations", "emergency, both stations"}
    /\ emergency_alert_cooldown \in {EmergencyAlertCooldownDefault,
                                     2 * emergency_check_interval}
    /\ horizon = StartTime + EndToEndHorizon

EndToEndNext ==
    \/ path = "fall, both stations" /\ \E r \in EndToEndReadings :
          Counted(FallSample(r[1], r[2]), MaxEndToEndEvents)
    \/ path = "fall, both stations" /\ fall_acknowledge
    \/ path = "fall, both stations" /\ \E ok \in BOOLEAN :
          check_fall_status(ok, fall_status_body.fall_detected)
             /\ UNCHANGED loopVars
    \/ path = "emergency, both stations" /\
          Counted(StickEvent("pressed", "middle"), MaxEndToEndEvents)
    \/ path = "emergency, both stations" /\ acknowledge_emergency
    \/ path = "emergency, both stations" /\ \E ok \in BOOLEAN :
          check_emergency_status(ok, emergency_status_body.emergency_active)
             /\ UNCHANGED loopVars
    \/ Tick

SpecEndToEnd == EndToEndInit /\ [][EndToEndNext]_vars

(***************************************************************************)
(* The hub's bounded histories: each run records events of one kind until  *)
(* its history has overflowed                                              *)
(***************************************************************************)
\* readings in a run filling the fall history: quiet, impact with rotation
HistoryReadings == {<<10, 150>>, <<21, 151>>}

HistoryInit ==
    /\ VisionInit
    /\ call_args = NoCall
    /\ emergency_alert_cooldown = EmergencyAlertCooldownDefault
    /\ path \in {"fall history", "emergency history", "assistance history"}
    /\ IF path = "fall history"
       THEN HubInitAfter(PriorFalls) /\ horizon = now + FallHistoryHorizon
       ELSE HubInit /\ horizon = now + StickHistoryHorizon

HistoryNext ==
    \/ path = "fall history" /\ \E r \in HistoryReadings :
          FallSample(r[1], r[2]) /\ UNCHANGED events
    \/ path = "emergency history" /\
          Counted(StickEvent("pressed", "middle"), MaxHistoryEvents)
    \/ path = "assistance history" /\
          Counted(StickEvent("pressed", "up"), MaxHistoryEvents)
    \/ Tick

SpecHistory == HistoryInit /\ [][HistoryNext]_vars

(***************************************************************************)
(* The hub's threads: both workers and the status handlers, statement by   *)
(* statement                                                               *)
(***************************************************************************)
\* readings in a run of the hub's threads: quiet, impact with rotation
ThreadReadings == {<<10, 150>>, <<21, 151>>}
\* joystick events in a run of the hub's threads
ThreadStickEvents == {<<"pressed", "middle">>, <<"pressed", "up">>,
                      <<"released", "middle">>}

ThreadsInit == HubInit /\ Quiet /\ horizon = StartTime + ThreadHorizon

ThreadsNext ==
    \/ \E r \in ThreadReadings :
          Counted(FallWorkerSample(r[1], r[2]), MaxThreadEvents)
    \/ FallWorkerSetFlag
    \/ FallWorkerSetTimestamp
    \/ FallWorkerAppend
    \/ \E e \in ThreadStickEvents :
          Counted(StickWorkerEvent(e[1], e[2]), MaxThreadEvents)
    \/ StickWorkerSetTimestamp
    \/ StickWorkerAppend
    \/ \E endpoint \in ThreadedEndpoints : StatusRequestStep(endpoint)
    \/ Tick

SpecHubThreads == ThreadsInit /\ [][ThreadsNext]_vars

(***************************************************************************)
(* The announcement threads: any caller submits, the threads take turns    *)
(***************************************************************************)
\* texts the callers of speak() pass: the start-up message, the fall warning
\* and the emergency warning
SpokenTexts == {"Vision assistant started", FallAlertMessage,
                EmergencyAlertMessage}

SpeechInit == HubInit /\ Quiet /\ horizon = StartTime

SpeechNext ==
    \/ \E text \in SpokenTexts, priority \in BOOLEAN : speak(text, priority)
    \/ \E thread \in 1..MaxSpeechThreads : SpeechAcquire(thread)
    \/ \E thread \in 1..MaxSpeechThreads : SpeechSay(thread)
    \/ \E thread \in 1..MaxSpeechThreads : SpeechRelease(thread)

SpecSpeech == SpeechInit /\ [][SpeechNext]_vars

(***************************************************************************)
(* The announcement threads up to the end of the process: run() is left    *)
(* at some point, cleanup() runs and the main thread ends                  *)
(***************************************************************************)
ShutdownInit == SpeechInit

ShutdownNext ==
    \/ /\ loop_pc \notin {"cleanup", "exited"}
       /\ \E text \in SpokenTexts, priority \in BOOLEAN : speak(text, priority)
    \/ /\ loop_pc # "exited"
       /\ \E thread \in 1..MaxSpeechThreads : SpeechAcquire(thread)
    \/ /\ loop_pc # "exited"
       /\ \E thread \in 1..MaxSpeechThreads : SpeechSay(thread)
    \/ /\ loop_pc # "exited"
       /\ \E thread \in 1..MaxSpeechThreads : SpeechRelease(thread)
    \/ cleanup
    \/ ProcessExit

SpecShutdown == ShutdownInit /\ [][ShutdownNext]_vars

(***************************************************************************)
(* The announcement threads with a speech engine whose calls can raise     *)
(***************************************************************************)
SpeechFaultsInit == SpeechInit

SpeechFaultsNext ==
    \/ \E text \in SpokenTexts, priority \in BOOLEAN : speak(text, priority)
    \/ \E thread \in 1..MaxSpeechThreads : SpeechAcquire(thread)
    \/ \E thread \in 1..MaxSpeechThreads : SpeechSay(thread)
    \/ \E thread \in 1..MaxSpeechThreads : SpeechRelease(thread)
    \/ \E thread \in 1..MaxSpeechThreads : SpeechRaise(thread)

SpecSpeechFaults == SpeechFaultsInit /\ [][SpeechFaultsNext]_vars

(***************************************************************************)
(* The vision unit's main loop: the four calls of each pass in order; what *)
(* the detector finds and what the hub answers are inputs                  *)
(***************************************************************************)
\* frames in a run of the main loop: nothing found, a person very close
\* ahead, a person approaching on the left and a person very close ahead
LoopFrames ==
    { << >>,
      << Box("person", 220, 100, 420, 400) >>,
      << Box("person", 0, 100, 200, 300), Box("person", 220, 100, 420, 400) >> }

LoopInit ==
    /\ HubInit
    /\ VisionInit
    /\ call_args = NoCall
    /\ emergency_alert_cooldown = EmergencyAlertCooldownDefault
    /\ path = "main loop"
    /\ horizon = StartTime + LoopHorizon

LoopNext ==
    \/ \E boxes \in LoopFrames :
          LoopCall("process_frame", process_frame(boxes),
                   now - last_inference_time >= inference_interval, TRUE)
    \/ \E ok \in BOOLEAN, d \in BOOLEAN :
          LoopCall("check_fall_status", check_fall_status(ok, d),
                   PollDue(last_fall_check, fall_check_interval, now), ok)
    \/ \E ok \in BOOLEAN, d \in BOOLEAN :
          LoopCall("check_emergency_status", check_emergency_status(ok, d),
                   PollDue(last_emergency_check, emergency_check_interval, now), ok)
    \/ \E ok \in BOOLEAN, d \in BOOLEAN :
          LoopCall("check_assistance_status",
                   check_assistance_status(ok, d, "General Help"),
                   PollDue(last_assistance_check, assistance_check_interval, now),
                   ok)
    \/ FrameReadFailed
    \/ Tick

SpecLoop == LoopInit /\ [][LoopNext]_vars

(***************************************************************************)
(* get_direction on its own: one call on a frame of some width and a box   *)
(* whose centre lies somewhere in it                                       *)
(***************************************************************************)
\* frame widths of the cameras tried, the configured one among them
FrameWidths == {20, 100, FrameWidth}

\* box centres come in halves of a pixel, center_x = (x1 + x2) / 2, so the
\* call is given twice the centre
DirectionArguments ==
    UNION {{[twice_center_x |-> c, frame_width |-> w] : c \in 0..(2 * w)}
              : w \in FrameWidths}

get_direction_call ==
    /\ call_result = NoCall
    /\ call_result' = get_direction(call_args.twice_center_x,
                                    call_args.frame_width)
    /\ last_op' = "get_direction"
    /\ http_response' = NoResponse
    /\ UNCHANGED <<now, horizon, hubAll, visionAll, unannounced, arrived,
                   threadVars, speechVars, loopVars, call_args, ledVars, dbVars>>

DirectionInit ==
    /\ HubInit
    /\ VisionInit
    /\ emergency_alert_cooldown = EmergencyAlertCooldownDefault
    /\ path = "get_direction"
    /\ horizon = StartTime
    /\ call_args \in DirectionArguments

DirectionNext == get_direction_call

SpecDirection == DirectionInit /\ [][DirectionNext]_vars

(***************************************************************************)
(* Properties of the fall classifier                                       *)
(***************************************************************************)
\* C1 as stated: when exactly one sample is in freefall and every other
\* sample is quiet, exactly one FallEvent has fired once a quiet sample has
\* followed the freefall one.
C1_OneFreefallSampleFiresOnce ==
    (freefall_samples = 1 /\ tumble_samples = 0 /\ quiet_after)
        => Len(fall_history) = 1

\* C1 amended: a single freefall sample among quiet ones fires nothing; two
\* adjacent freefall samples among quiet ones (no impact, no rotation) fire
\* exactly one FallEvent.
C1_TwoAdjacentFreefallSamplesFireOnce ==
    /\ (freefall_samples = 1 /\ tumble_samples = 0) => Len(fall_history) = 0
    /\ (freefall_samples = 2 /\ tumble_samples = 0 /\ ~pos_split)
           => (Len(fall_history) = 1 /\ fall_timestamp = fall_history[1].timestamp)

C1_Witness ==
    /\ freefall_samples = 2 /\ tumble_samples = 0 /\ ~pos_split /\ quiet_after
    /\ Len(fall_history) = 1
    /\ fall_history[1].rotation <= GYRO_THRESHOLD

\* C2 as stated: a FallEvent fires only on a sample whose raw signal is
\* positive and whose immediately preceding sample was positive too.
C2_FiresOnlyOnSecondConsecutivePositive ==
    sample_obs.fired => (sample_obs.signal /\ sample_obs.prev)

\* C3: every FallEvent (history entry, fall_timestamp) is more than
\* fall_cooldown seconds after the one before it, whatever the signal does and
\* whether or not the fall was acknowledged in between.
C3_NoSecondFallEventWithinCooldown ==
    /\ \A i \in 1..(Len(fall_history) - 1) :
           fall_history[i + 1].timestamp - fall_history[i].timestamp > fall_cooldown
    /\ fall_timestamp # None =>
           /\ fall_history # << >>
           /\ fall_timestamp = fall_history[Len(fall_history)].timestamp
    /\ fall_timestamp = None => fall_history = << >>

\* a confirmation suppressed on the last second of the cooldown, after an
\* acknowledgment, with the signal still positive
C3_Witness ==
    /\ Len(fall_history) = 1
    /\ now - fall_timestamp = fall_cooldown
    /\ ~fall_detected
    /\ last_op = "fall_detection_worker"
    /\ sample_obs.signal /\ sample_obs.prev /\ ~sample_obs.fired
    /\ consecutive_readings >= required_consecutive

(***************************************************************************)
(* Properties of the vision unit's cooldown and dispatch                   *)
(***************************************************************************)
\* the cooldown window of a dedup key
CooldownOf(key) ==
    CASE key[1] = "proximity" -> alert_cooldown
      [] key[1] = "fall" -> fall_alert_cooldown
      [] key[1] = "emergency" -> emergency_alert_cooldown
      [] OTHER -> assistance_alert_cooldown

\* the cooldown timestamp the vision unit holds for a dedup key
LastEmit(key) ==
    CASE key[1] = "proximity" -> last_alert_time[<<key[2], key[3]>>]
      [] key[1] = "fall" -> last_fall_alert_time
      [] key[1] = "emergency" -> last_emergency_alert_time
      [] OTHER -> last_assistance_alert_time[key[2]]

AcceptedCands == {i \in DOMAIN cands : cands[i].accepted}

\* C4: a candidate that arrives within its key's cooldown window of the last
\* accepted alert for that key is dropped (not announced, not logged, the
\* cooldown timestamp left as it was); one that arrives after the window has
\* elapsed is accepted (logged, its time recorded as the cooldown timestamp).
C4_CooldownDropsWithinWindowAcceptsAfter ==
    /\ \A i \in DOMAIN cands :
         LET c == cands[i]
         IN  IF c.at - c.last <= CooldownOf(c.key)
             THEN ~c.accepted /\ LastEmit(c.key) = c.last
             ELSE c.accepted /\ LastEmit(c.key) = c.at
    /\ Len(log_calls) = Cardinality(AcceptedCands)
    /\ \A j \in DOMAIN log_calls :
          \E i \in AcceptedCands : cands[i].text = log_calls[j][4]
    /\ \A j \in DOMAIN speak_calls :
          \E i \in AcceptedCands : cands[i].text = speak_calls[j]

\* a candidate dropped on the last second of its window
C4_Witness ==
    \E i \in DOMAIN cands :
        /\ ~cands[i].accepted
        /\ cands[i].last > 0
        /\ cands[i].at - cands[i].last = CooldownOf(cands[i].key)
        /\ cands[i].key[1] = "emergency"

\* C6: of the proximity candidates accepted in one inference cycle exactly
\* one is spoken, and it is a critical one whenever a critical one was
\* accepted, in whichever order the detector listed them.
C6_MostSevereAcceptedIsSpoken ==
    last_op = "process_frame" =>
        IF AcceptedCands = {} THEN speak_calls = << >>
        ELSE /\ Len(speak_calls) = 1
             /\ \E i \in AcceptedCands :
                   /\ cands[i].text = speak_calls[1]
                   /\ \A j \in AcceptedCands :
                         cands[j].severity = "critical"
                            => cands[i].severity = "critical"

\* a warning candidate listed before a critical one, both accepted
C6_Witness ==
    /\ last_op = "process_frame"
    /\ Len(cands) = 2
    /\ cands[1].accepted /\ cands[1].severity = "warning"
    /\ cands[2].accepted /\ cands[2].severity = "critical"
    /\ speak_calls = << cands[2].text >>

\* C8: whenever a poll finds the hub's flag active, an alert of that category
\* has been accepted within the last cooldown window: the flag is re-announced
\* as soon as the window has elapsed, however many alerts it has had already.
C8_ActiveFlagReannouncedEveryCooldown ==
    last_op \in {"check_fall_status", "check_emergency_status",
                 "check_assistance_status"} =>
        \A i \in DOMAIN cands :
            /\ cands[i].at - LastEmit(cands[i].key) <= CooldownOf(cands[i].key)
            /\ (cands[i].at - cands[i].last > CooldownOf(cands[i].key))
                   => (cands[i].accepted /\ streak >= 1)

\* a second alert for a fall flag that every poll in between found active
C8_Witness ==
    /\ last_op = "check_fall_status"
    /\ streak = 2
    /\ Len(cands) = 1 /\ cands[1].accepted
    /\ cands[1].at - cands[1].last = fall_alert_cooldown + 1

(***************************************************************************)
(* Properties of the two stations together                                 *)
(***************************************************************************)
\* three polls, each answered, each finding the emergency active, each one
\* poll interval after the one before, with the cooldown at two poll intervals
ThreeTicks ==
    /\ emergency_alert_cooldown = 2 * emergency_check_interval
    /\ Len(poll_log) = 3
    /\ \A i \in 1..3 : poll_log[i].ok /\ poll_log[i].active
    /\ \A i \in 1..2 : poll_log[i + 1].at = poll_log[i].at + emergency_check_interval

\* C5 as stated: the first and the third of the three ticks are accepted.
C5_ThreeTicksTwoAlerts ==
    ThreeTicks =>
        {i \in 1..3 : poll_log[i].accepted} = {1, 3}

\* C5 amended: only the first of the three ticks is accepted; the third comes
\* exactly one cooldown after the first, which is still inside the window.
C5_ThreeTicksOneAlert ==
    ThreeTicks =>
        /\ {i \in 1..3 : poll_log[i].accepted} = {1}
        /\ last_emergency_alert_time = poll_log[1].at

C5_Witness ==
    /\ ThreeTicks
    /\ last_op = "check_emergency_status"
    /\ now = poll_log[3].at
    /\ emergency_history # << >>

\* C7 as stated, in the form a finite run refutes: the vision unit announces a
\* category only while the hub's flag for it is active, so an event that no
\* accepted alert has followed yet must still have its flag set.
C7_NoCriticalEventMissed ==
    /\ "fall" \in unannounced => fall_detected
    /\ "emergency" \in unannounced => emergency_active

(***************************************************************************)
(* Properties of the hub's alert state                                     *)
(***************************************************************************)
\* C9: a step that clears an active flag (fall_detected, emergency_active, the
\* current assistance type) is a call of that category's acknowledge endpoint;
\* no worker, status read, other acknowledgment or clock tick clears it.
C9_FlagsClearedOnlyByAcknowledge ==
    [][ /\ (fall_detected /\ ~fall_detected') => last_op' = "fall_acknowledge"
        /\ (emergency_active /\ ~emergency_active')
               => last_op' = "acknowledge_emergency"
        /\ (assistance_request # NoneType /\ assistance_request' = NoneType)
               => last_op' = "acknowledge_assistance" ]_vars

\* the fall flag is still set after time has passed and the emergency that
\* came after it has been acknowledged
C9_Witness ==
    /\ fall_detected
    /\ now > fall_timestamp
    /\ emergency_history # << >>
    /\ ~emergency_active
    /\ last_op = "acknowledge_emergency"

\* C10: an acknowledge endpoint leaves every history, every last-event
\* timestamp, the environmental snapshot and the other categories' flags as
\* they were.
C10_AcknowledgeChangesOnlyItsFlag ==
    [][ /\ last_op' = "fall_acknowledge" =>
               UNCHANGED <<now, consecutive_readings, fall_timestamp, fall_history,
                           emergencyVars, assistanceVars, environmental_data>>
        /\ last_op' = "acknowledge_emergency" =>
               UNCHANGED <<now, fallVars, emergency_timestamp, emergency_history,
                           assistanceVars, environmental_data>>
        /\ last_op' = "acknowledge_assistance" =>
               UNCHANGED <<now, fallVars, emergencyVars, assistance_timestamp,
                           assistance_history, environmental_data>> ]_vars

\* a fall has been acknowledged while an emergency is active: the history,
\* the timestamp and the emergency are all still there
C10_Witness ==
    /\ last_op = "fall_acknowledge"
    /\ ~fall_detected
    /\ fall_history # << >>
    /\ fall_timestamp # None
    /\ emergency_active
    /\ emergency_history # << >>

(***************************************************************************)
(* Properties of the acknowledge endpoints                                 *)
(***************************************************************************)
AcknowledgeOps == {"fall_acknowledge", "acknowledge_emergency",
                   "acknowledge_assistance"}

\* the flag an acknowledge endpoint clears, as it is before the step
FlagActive(op) ==
    CASE op = "fall_acknowledge" -> fall_detected
      [] op = "acknowledge_emergency" -> emergency_active
      [] OTHER -> assistance_request # NoneType

\* C11: every acknowledge request is answered 'acknowledged'; one that finds
\* its flag inactive changes nothing on the hub, and so does one that follows
\* an acknowledge of the same category directly.
C11_AcknowledgeIsIdempotent ==
    [][ \A op \in AcknowledgeOps :
           last_op' = op =>
              /\ http_response' = Acknowledged
              /\ ~FlagActive(op)'
              /\ ~FlagActive(op) => hubVars' = hubVars
              /\ last_op = op => hubVars' = hubVars ]_vars

\* an assistance acknowledge answered when no request was ever made, on a hub
\* that has recorded a fall
C11_Witness ==
    /\ last_op = "acknowledge_assistance"
    /\ assistance_history = << >>
    /\ http_response = Acknowledged
    /\ fall_detected

(***************************************************************************)
(* Properties of the bounded histories                                     *)
(***************************************************************************)
\* the last n entries of a sequence, all of it when it is shorter
LastN(seq, n) ==
    IF Len(seq) <= n THEN seq ELSE SubSeq(seq, Len(seq) - n + 1, Len(seq))

\* C12: the fall, emergency and assistance histories never hold more than 10,
\* 10 and 20 entries, and each is exactly the most recent events of its kind,
\* up to its capacity, in the order they were recorded.
C12_HistoriesHoldTheMostRecentEvents ==
    /\ Len(fall_history) <= 10
    /\ Len(emergency_history) <= 10
    /\ Len(assistance_history) <= 20
    /\ fall_history = LastN(arrived.fall, 10)
    /\ emergency_history = LastN(arrived.emergency, 10)
    /\ assistance_history = LastN(arrived.assistance, 20)

\* eleven FallEvents recorded, the first of them gone from the history
C12_Witness ==
    /\ Len(arrived.fall) = 11
    /\ Len(fall_history) = 10
    /\ fall_history[1] = arrived.fall[2]
    /\ fall_history[10] = arrived.fall[11]
    /\ fall_history[1].timestamp > arrived.fall[1].timestamp

(***************************************************************************)
(* Properties of the hub's threads                                         *)
(***************************************************************************)
\* C13 as stated: no status answer shows an event partly recorded, that is,
\* an active flag with the event's timestamp still null or with the event
\* not yet in the history.
C13_StatusNeverSeesPartialUpdate ==
    (http_response.code = 200 /\ last_op \in ThreadedEndpoints) =>
        LET body == http_response.body
        IN  CASE last_op = "fall_status" ->
                    body.fall_detected =>
                        /\ body.last_fall_timestamp # None
                        /\ body.fall_history # << >>
              [] last_op = "get_emergency_status" ->
                    body.emergency_active =>
                        /\ body.last_emergency_timestamp # None
                        /\ body.emergency_history # << >>
              [] OTHER ->
                    body.assistance_active =>
                        /\ body.last_assistance_timestamp # None
                        /\ body.assistance_history # << >>

(***************************************************************************)
(* Properties of the announcement threads                                  *)
(***************************************************************************)
\* the threads between taking the lock and leaving runAndWait
InSpeechEngine ==
    {t \in DOMAIN speech_threads : speech_threads[t].at \in {"say", "runAndWait"}}

\* C14: at most one announcement thread is inside the speech engine at any
\* time, and it is the one that holds the lock.
C14_OneThreadInSpeechEngine ==
    /\ Cardinality(InSpeechEngine) <= 1
    /\ \A t \in InSpeechEngine : tts_lock = t

\* one thread inside runAndWait while two others wait for the lock
C14_Witness ==
    /\ Len(speech_threads) = 3
    /\ \E t \in InSpeechEngine :
          /\ speech_threads[t].at = "runAndWait"
          /\ \A u \in DOMAIN speech_threads \ {t} : speech_threads[u].at = "start"

\* C15: a call of speak can be made and returns in every state, whatever the
\* priority, whoever holds the lock and however many earlier announcements are
\* in progress or waiting: the caller never waits for the lock.
C15_SpeakReturnsAtOnce ==
    Len(speech_threads) < MaxSpeechThreads =>
        \A text \in SpokenTexts, priority \in BOOLEAN :
            ENABLED speak(text, priority)

\* a call of speak has just returned while an earlier announcement is inside
\* runAndWait and another still waits for the lock
C15_Witness ==
    /\ last_op = "speak"
    /\ Len(speech_threads) = 3
    /\ speech_threads[1].at = "runAndWait" /\ tts_lock = 1
    /\ speech_threads[2].at = "start"
    /\ speech_threads[3].at = "start" /\ speech_threads[3].priority

(***************************************************************************)
(* Properties of the main loop                                             *)
(***************************************************************************)
\* the calls of one pass, in order
PassCalls == <<"process_frame", "check_fall_status", "check_emergency_status",
               "check_assistance_status">>

\* the entry the last call added to the pass
LastCall == pass_log[Len(pass_log)]

\* C16: every pass that got a frame goes on to the fall and the emergency
\* poll, whatever process_frame has spoken, and a fall or emergency poll that
\* finds the flag active outside its cooldown passes its warning to speak()
\* in that same pass.
C16_FallAndEmergencyBypassTheCap ==
    /\ (loop_pc = "process_frame" /\ pass_log # << >>) =>
          [k \in DOMAIN pass_log |-> pass_log[k].call] = PassCalls
    /\ \A k \in DOMAIN pass_log :
          pass_log[k].call \in {"check_fall_status", "check_emergency_status"} =>
             \A i \in DOMAIN pass_log[k].cands :
                LET c == pass_log[k].cands[i]
                IN  c.at - c.last > CooldownOf(c.key)
                       => pass_log[k].spoke = << c.text >>

\* a pass in which a proximity alert, the fall warning and the emergency
\* warning were all passed to speak()
C16_Witness ==
    /\ loop_pc = "process_frame"
    /\ Len(pass_log) = 4
    /\ pass_log[1].spoke = << generate_proximity_alert("person", "critical", "ahead") >>
    /\ Len(pass_log[1].cands) = 2
    /\ pass_log[2].spoke = << FallAlertMessage >>
    /\ pass_log[3].spoke = << EmergencyAlertMessage >>

\* the check a call makes has its last-checked time, its cooldown time and
\* its interval
LastCheckOf(call) ==
    CASE call = "check_fall_status" -> last_fall_check
      [] call = "check_emergency_status" -> last_emergency_check
      [] OTHER -> last_assistance_check

LastAlertOf(call) ==
    CASE call = "check_fall_status" -> <<last_fall_alert_time>>
      [] call = "check_emergency_status" -> <<last_emergency_alert_time>>
      [] OTHER -> <<last_assistance_alert_time>>

PollCalls == {"check_fall_status", "check_emergency_status",
              "check_assistance_status"}

\* C17: a poll that fails speaks nothing, logs nothing, leaves its cooldown
\* time as it was, records the time of the attempt and lets the loop go on;
\* and every call of a check made one interval (2 s) or more after its last
\* attempt polls again, whether that attempt failed or not.
C17_FailedPollIsSwallowedAndRetried ==
    [][ \A call \in PollCalls :
           (loop_pc = call /\ last_op' = call) =>
              /\ (LastCall'.due /\ ~LastCall'.ok) =>
                    /\ speak_calls' = << >>
                    /\ log_calls' = << >>
                    /\ LastAlertOf(call)' = LastAlertOf(call)
                    /\ LastCheckOf(call)' = now
                    /\ loop_pc' # call
              /\ (now - LastCheckOf(call) >= 2) => LastCheckOf(call)' = now
      ]_vars

\* a fall poll that failed two seconds after the poll that gave the warning
C17_Witness ==
    /\ last_op = "check_fall_status"
    /\ LastCall.call = "check_fall_status" /\ LastCall.due /\ ~LastCall.ok
    /\ last_fall_alert_time = StartTime
    /\ last_fall_check = StartTime + 2
    /\ now = last_fall_check

\* what a check keeps for itself
OwnTimes(call) == <<LastCheckOf(call), LastAlertOf(call)>>

\* C18: a pass makes its three polls in order whichever of them fail, a call
\* of one check changes no time another check keeps, and every check whose
\* own interval has passed polls.
C18_PollsAreIndependent ==
    /\ [](/\ \A k \in DOMAIN pass_log : pass_log[k].call = PassCalls[k]
          /\ loop_pc = "process_frame" => Len(pass_log) \in {0, 4}
          /\ loop_pc # "process_frame" => PassCalls[Len(pass_log) + 1] = loop_pc)
    /\ [][ \A call \in PollCalls :
             (loop_pc = call /\ last_op' = call) =>
                /\ \A other \in PollCalls \ {call} :
                      OwnTimes(other)' = OwnTimes(other)
                /\ (now - LastCheckOf(call) >= 2) => LastCheckOf(call)' = now
        ]_vars

\* a pass in which the fall poll failed and the emergency and assistance
\* polls went ahead and gave their warnings
C18_Witness ==
    /\ loop_pc = "process_frame"
    /\ Len(pass_log) = 4
    /\ pass_log[2].due /\ ~pass_log[2].ok
    /\ pass_log[3].due /\ pass_log[3].ok
    /\ pass_log[3].spoke = << EmergencyAlertMessage >>
    /\ pass_log[4].due /\ pass_log[4].ok /\ pass_log[4].spoke # << >>
    /\ last_fall_check = last_emergency_check

(***************************************************************************)
(* Properties of the joystick event capture                                *)
(***************************************************************************)
Last(seq) == seq[Len(seq)]

\* C19: the hub holds one assistance type or none; a press on a directional
\* control makes that control's type the active one, whatever was active
\* before, and adds one AssistanceEvent of that type to the history.
C19_DirectionalPressOverwritesTheRequest ==
    [][ /\ assistance_request' \in
              {NoneType, "General Help", "Bathroom", "Food/Water", "Medication"}
        /\ \A direction \in {"up", "down", "left", "right"} :
              LET type == CASE direction = "up" -> "General Help"
                            [] direction = "down" -> "Bathroom"
                            [] direction = "left" -> "Food/Water"
                            [] OTHER -> "Medication"
              IN  StickEvent("pressed", direction) =>
                     /\ assistance_request' = type
                     /\ assistance_timestamp' = now
                     /\ Len(arrived'.assistance) = Len(arrived.assistance) + 1
                     /\ Last(arrived'.assistance).type = type
                     /\ Last(arrived'.assistance).direction = direction
                     /\ assistance_history' = LastN(arrived'.assistance, 20)
      ]_vars

\* a bathroom request made while a request for general help was active
C19_Witness ==
    /\ last_op = "emergency_monitoring_worker"
    /\ events = 2
    /\ Len(assistance_history) = 2
    /\ assistance_history[1].type = "General Help"
    /\ assistance_history[2].type = "Bathroom"
    /\ assistance_request = "Bathroom"

\* C20: every press of the middle control sets emergency_active and adds one
\* EmergencyEvent, however soon after the press before; an event that is not
\* a press changes nothing on the hub.
C20_EveryMiddlePressIsAnEmergency ==
    [][ /\ StickEvent("pressed", "middle") =>
              /\ emergency_active'
              /\ emergency_timestamp' = now
              /\ Len(arrived'.emergency) = Len(arrived.emergency) + 1
              /\ emergency_history' = LastN(arrived'.emergency, 10)
        /\ \A action \in {"held", "released"}, direction \in StickDirections :
              StickEvent(action, direction) =>
                 (hubVars' = hubVars /\ arrived' = arrived)
      ]_vars

\* three presses of the middle control within the same second
C20_Witness ==
    /\ last_op = "emergency_monitoring_worker"
    /\ emergency_active
    /\ Len(emergency_history) = 3
    /\ \A k \in 1..3 : emergency_history[k].timestamp = StartTime

(***************************************************************************)
(* Properties of the status endpoints                                      *)
(***************************************************************************)
\* the body a status endpoint is to answer with in the current state
ExpectedBody(endpoint) ==
    CASE endpoint = "fall_status" -> fall_status_body
      [] endpoint = "get_emergency_status" -> emergency_status_body
      [] endpoint = "get_assistance_status" -> assistance_status_body
      [] OTHER -> environmental_data

\* C21: a status read can be served in every state, changes nothing on the
\* hub, and answers 200 with a body that is a function of the hub's state
\* alone, so that reads with no event or acknowledgment between them answer
\* the same.
C21_StatusReadsChangeNothing ==
    /\ [](\A endpoint \in StatusEndpoints : ENABLED StatusRead(endpoint))
    /\ [][ \A endpoint \in StatusEndpoints :
             last_op' = endpoint =>
                /\ hubVars' = hubVars
                /\ arrived' = arrived
                /\ http_response'.code = 200
                /\ http_response'.body = ExpectedBody(endpoint)
                /\ last_op = endpoint => http_response' = http_response
        ]_vars

\* the fall status read on a hub that has recorded one fall and no assistance
\* request
C21_Witness ==
    /\ last_op = "fall_status"
    /\ http_response.code = 200
    /\ http_response.body.fall_detected
    /\ Len(http_response.body.fall_history) = 1
    /\ assistance_history = << >>

(***************************************************************************)
(* C22: for every frame width, a box whose centre is less than 15% of the  *)
(* width away from the middle of the frame is "ahead"; any other centre is *)
(* on the side it lies on, left of the middle "on your left", right of it  *)
(* "on your right", from the first half pixel outside the deadzone on.     *)
(* Distances are doubled, as the centres are.                              *)
(***************************************************************************)
C22_DeadzoneIsAheadOutsideIsTheSide ==
    last_op = "get_direction" =>
        LET middle == call_args.frame_width
            centre == call_args.twice_center_x
            inside == /\ 100 * (centre - middle) < 30 * middle
                      /\ 100 * (middle - centre) < 30 * middle
        IN  /\ inside => call_result = "ahead"
            /\ ~inside /\ centre < middle => call_result = "on your left"
            /\ ~inside /\ centre > middle => call_result = "on your right"

\* the box half a pixel outside the deadzone on the left of the configured
\* frame, centre 223.5 where the deadzone ends at 224
C22_Witness ==
    /\ last_op = "get_direction"
    /\ call_args.frame_width = FrameWidth
    /\ call_args.twice_center_x = 447
    /\ call_result = "on your left"

(***************************************************************************)
(* C23: an iteration of the fall worker whose sensor read fails changes    *)
(* neither the count of positive samples nor fall_detected, fall_timestamp *)
(* or fall_history, and the worker is still running after it: it can take  *)
(* its next sample.                                                        *)
(***************************************************************************)
C23_FailedReadIsNotFatalAndChangesNothing ==
    /\ [][ last_op' = "fall_detection_worker failed" =>
              /\ consecutive_readings' = consecutive_readings
              /\ fall_detected' = fall_detected
              /\ fall_timestamp' = fall_timestamp
              /\ fall_history' = fall_history
         ]_vars
    /\ [](last_op = "fall_detection_worker failed" =>
              ENABLED (\E r \in FaultReadings : FallSample(r[1], r[2])))

\* a read fails after a fall has fired and one more positive sample has been
\* counted
C23_Witness ==
    /\ last_op = "fall_detection_worker failed"
    /\ consecutive_readings = 1
    /\ fall_detected
    /\ Len(fall_history) = 1

(***************************************************************************)
(* C24: every answer of GET /api/environmental, also one given before the  *)
(* first environmental sample or on a hub without the sensor board, has    *)
(* exactly the fields temperature_c, temperature_f, humidity, pressure and *)
(* last_update.                                                            *)
(***************************************************************************)
C24_EnvironmentalResponseHasTheFiveFields ==
    last_op = "get_environmental" =>
        http_response.body.fields = {"temperature_c", "temperature_f",
                                     "humidity", "pressure", "last_update"}

(***************************************************************************)
(* C25: every proximity candidate that passes the cooldown check has its   *)
(* cooldown timestamp recorded, is announced and is written to the session *)
(* log in the same cycle; as only accepted candidates have their timestamp *)
(* recorded or a log row written, none has either without being announced. *)
(***************************************************************************)
C25_EveryAcceptedProximityAlertIsAnnounced ==
    last_op = "process_frame" =>
        \A i \in DOMAIN cands :
            cands[i].accepted =>
                /\ last_alert_time[<<cands[i].key[2], cands[i].key[3]>>]
                      = cands[i].at
                /\ \E j \in DOMAIN log_calls : log_calls[j][4] = cands[i].text
                /\ \E j \in DOMAIN speak_calls : speak_calls[j] = cands[i].text

(***************************************************************************)
(* C26: the count of consecutive positive samples is put back to 0         *)
(* whenever it reaches the confirmation threshold of 2, also when the fall *)
(* is suppressed by the cooldown, so that it is never above 2 and a sample *)
(* that brings it to the threshold leaves it at 0.                         *)
(***************************************************************************)
C26_CounterIsResetAtTheThreshold ==
    /\ consecutive_readings <= required_consecutive
    /\ last_op = "fall_detection_worker" /\ sample_obs.signal =>
          consecutive_readings < required_consecutive

(***************************************************************************)
(* C27: proximity alerts are deduplicated on class and direction alone.    *)
(* Once a candidate of a class and direction has been accepted, whatever   *)
(* its severity, every candidate of the same class and direction that      *)
(* comes within the 5 s window is dropped, whatever its severity: later in *)
(* the same frame, or in a later frame; a critical candidate after an      *)
(* accepted warning is no exception.                                       *)
(***************************************************************************)
C27_DedupKeyIgnoresSeverity ==
    /\ [](last_op = "process_frame" =>
            \A i \in DOMAIN cands, j \in DOMAIN cands :
                i < j /\ cands[i].accepted /\ cands[j].key = cands[i].key
                    => ~cands[j].accepted)
    /\ [][ path = "proximity" /\ last_op' = "process_frame" =>
             \A i \in DOMAIN cands, j \in DOMAIN cands' :
                 /\ cands[i].accepted
                 /\ cands'[j].key = cands[i].key
                 /\ cands'[j].at - cands[i].at <= alert_cooldown
                 => ~cands'[j].accepted
         ]_vars

\* a critical person ahead is dropped right behind the warning for a person
\* ahead that was accepted
C27_Witness ==
    /\ last_op = "process_frame"
    /\ Len(cands) = 2
    /\ cands[1].accepted /\ cands[1].severity = "warning"
    /\ cands[2].key = cands[1].key
    /\ cands[2].severity = "critical" /\ ~cands[2].accepted
    /\ Len(speak_calls) = 1

(***************************************************************************)
(* C28: an iteration of the main loop whose frame read fails goes back to  *)
(* the top of the loop: it polls nothing (no check time, no alert time is  *)
(* touched), announces nothing, and after it none of the three status      *)
(* checks can run before the next frame read, however overdue they are and *)
(* whatever the hub would answer.                                          *)
(***************************************************************************)
C28_FailedFrameReadSkipsThePolls ==
    /\ [][ last_op' = "run" =>
              /\ loop_pc' = "process_frame"
              /\ pollVars' = pollVars
              /\ poll_log' = poll_log
              /\ speak_calls' = << >>
              /\ speech_threads' = speech_threads
         ]_vars
    /\ [](last_op = "run" =>
            /\ ~ENABLED (\E ok \in BOOLEAN, d \in BOOLEAN :
                  LoopCall("check_fall_status", check_fall_status(ok, d),
                           TRUE, ok))
            /\ ~ENABLED (\E ok \in BOOLEAN, d \in BOOLEAN :
                  LoopCall("check_emergency_status",
                           check_emergency_status(ok, d), TRUE, ok))
            /\ ~ENABLED (\E ok \in BOOLEAN, d \in BOOLEAN :
                  LoopCall("check_assistance_status",
                           check_assistance_status(ok, d, "General Help"),
                           TRUE, ok)))

\* a frame read fails when the fall poll of the pass before is due again
C28_Witness ==
    /\ last_op = "run"
    /\ last_fall_check > 0
    /\ now - last_fall_check >= fall_check_interval
    /\ loop_pc = "process_frame"

(***************************************************************************)
(* C29: in every answer of GET /api/assistance_status, assistance_active   *)
(* is true exactly when assistance_type is not null, also when a press or  *)
(* an acknowledgment runs while the answer is being put together.          *)
(***************************************************************************)
C29_AssistanceActiveIffTypeIsSet ==
    (http_response.code = 200 /\ last_op = "get_assistance_status") =>
        (http_response.body.assistance_active
            <=> http_response.body.assistance_type # NoneType)

(***************************************************************************)
(* C30: while every sample is positive, the first sample taken more than   *)
(* 10 s after the last recorded fall records a new one: a new entry in the *)
(* history, fall_timestamp at the time of the sample, fall_detected true   *)
(* whether or not the last fall was acknowledged; and this happens again   *)
(* in every later window, the recorded falls being more than 10 s apart.   *)
(* The worker samples twenty times a second, so at least one sample has    *)
(* been counted since the last fall.                                       *)
(***************************************************************************)
C30_SustainedSignalFiresOncePerCooldown ==
    /\ [][ ( /\ last_op' = "fall_detection_worker"
             /\ sample_obs'.signal
             /\ consecutive_readings >= 1
             /\ fall_timestamp # None
             /\ now - fall_timestamp > 10 )
           => /\ fall_detected'
              /\ fall_timestamp' = now
              /\ Len(fall_history') = Len(fall_history) + 1
              /\ fall_history'[Len(fall_history')].timestamp = now
         ]_vars
    /\ [](\A i \in DOMAIN fall_history :
            i > 1 => fall_history[i].timestamp - fall_history[i - 1].timestamp > 10)

\* the third fall of one sustained signal, each recorded on the first second
\* after the cooldown of the one before
C30_Witness ==
    /\ last_op = "fall_detection_worker"
    /\ sample_obs.fired
    /\ fall_detected
    /\ Len(fall_history) = 3
    /\ fall_history[2].timestamp = fall_history[1].timestamp + 11
    /\ fall_history[3].timestamp = fall_history[2].timestamp + 11
    /\ fall_timestamp = now

(***************************************************************************)
(* C31: an acknowledgment on the hub is invisible to the vision unit. Once *)
(* the hub has recorded an event of a category, a poll of the vision unit  *)
(* that is due, outside its own cooldown, can be answered so that the      *)
(* alert is accepted, whether or not the hub was acknowledged meanwhile:   *)
(* the acknowledgment takes no alert away from the vision unit.            *)
(***************************************************************************)
C31_HubAcknowledgmentIsInvisibleToVision ==
    /\ ( /\ path = "fall, both stations"
         /\ fall_history # << >>
         /\ PollDue(last_fall_check, fall_check_interval, now)
         /\ FallAlertDue(now) )
       => ENABLED (\E ok \in BOOLEAN :
                      /\ check_fall_status(ok, fall_status_body.fall_detected)
                      /\ UNCHANGED loopVars
                      /\ last_fall_alert_time' = now)
    /\ ( /\ path = "emergency, both stations"
         /\ emergency_history # << >>
         /\ PollDue(last_emergency_check, emergency_check_interval, now)
         /\ EmergencyAlertDue(now) )
       => ENABLED (\E ok \in BOOLEAN :
                      /\ check_emergency_status(ok,
                             emergency_status_body.emergency_active)
                      /\ UNCHANGED loopVars
                      /\ last_emergency_alert_time' = now)

(***************************************************************************)
(* C32: the idle animation yields to alerts. The animation worker writes a *)
(* frame to the LED matrix only while fall_detected, emergency_active and  *)
(* the assistance request are all clear, a pattern in progress stopping as *)
(* soon as one is set, and it starts a pattern only when all three are     *)
(* clear.                                                                  *)
(***************************************************************************)
C32_AnimationYieldsToAlerts ==
    [][ /\ (last_op' = "led_animation_worker" /\ led.at = "pattern")
            => (~fall_detected /\ ~emergency_active
                   /\ assistance_request = NoneType)
        /\ (led.at = "check" /\ led'.at = "pattern")
            => (~fall_detected /\ ~emergency_active
                   /\ assistance_request = NoneType)
      ]_vars

\* the detections of the last inference a proximity alert is considered for
CloseDetections(detections) ==
    {i \in DOMAIN detections : detections[i].distance \in {"critical", "warning"}}

(***************************************************************************)
(* C33: a detection whose class is not on the allow-list (a kite) only     *)
(* adds to the scene tally: it is not among the detections kept, produces  *)
(* no candidate, no log row and no announcement and leaves the cooldown    *)
(* table alone. Of the detections on the allow-list exactly the critical   *)
(* and warning ones produce a candidate, a far one never does, and the     *)
(* cooldown table changes only under an accepted candidate.                *)
(***************************************************************************)
C33_OnlyCloseAllowedDetectionsAlert ==
    [][ last_op' = "process_frame" =>
          /\ \A i \in DOMAIN cands' :
                /\ cands'[i].key[2] \in {"person", "chair"}
                /\ cands'[i].severity \in {"critical", "warning"}
          /\ \A j \in DOMAIN log_calls' :
                /\ log_calls'[j][1] \in {"person", "chair"}
                /\ log_calls'[j][2] \in {"critical", "warning"}
          /\ \A j \in DOMAIN speak_calls' :
                speak_calls'[j][1] \in {"person", "chair"}
          /\ \A k \in DOMAIN last_alert_time :
                last_alert_time'[k] # last_alert_time[k] =>
                    /\ k[1] \in {"person", "chair"}
                    /\ \E i \in DOMAIN cands' :
                          /\ cands'[i].key = <<"proximity", k[1], k[2]>>
                          /\ cands'[i].accepted
          /\ last_inference_time' # last_inference_time =>
                /\ \A i \in DOMAIN current_detections' :
                      current_detections'[i].name \in {"person", "chair"}
                /\ Len(cands') = Cardinality(CloseDetections(current_detections'))
      ]_vars

\* a frame with a kite as large as a critical person and a person in the
\* distance: both are tallied, neither is a candidate
C33_Witness ==
    /\ last_op = "process_frame"
    /\ last_inference_time = now
    /\ scene_objects["kite"] = 1
    /\ scene_objects["person"] = 1
    /\ Len(current_detections) = 1
    /\ current_detections[1].distance = "far"
    /\ cands = << >>
    /\ speak_calls = << >>
    /\ \A k \in DOMAIN last_alert_time : last_alert_time[k] = 0

(***************************************************************************)
(* C34: every text handed to speak() is spoken exactly once. In the form a *)
(* finite run refutes: when the process has ended, every announcement that *)
(* was submitted has been spoken to the end, and while it runs no          *)
(* announcement goes through the speech engine a second time or is         *)
(* dropped from the threads started.                                       *)
(***************************************************************************)
C34_EveryAnnouncementIsSpokenOnce ==
    /\ [](loop_pc = "exited" =>
            \A t \in DOMAIN speech_threads : speech_threads[t].at = "done")
    /\ [][ \A t \in DOMAIN speech_threads :
              /\ t \in DOMAIN speech_threads'
              /\ speech_threads'[t].text = speech_threads[t].text
              /\ speech_threads[t].at = "done" => speech_threads'[t].at = "done"
              /\ speech_threads'[t].at = "say" =>
                    speech_threads[t].at \in {"start", "say"}
         ]_vars

(***************************************************************************)
(* C35: announcements are spoken in the order they were submitted. A       *)
(* thread started later never enters the speech engine while one started   *)
(* earlier is still waiting for the lock, so a later announcement never    *)
(* overtakes an earlier fall or emergency announcement.                    *)
(***************************************************************************)
C35_SpokenInSubmissionOrder ==
    \A a \in DOMAIN speech_threads, b \in DOMAIN speech_threads :
        (a < b /\ speech_threads[a].at = "start")
            => speech_threads[b].at = "start"

(***************************************************************************)
(* C36: a speech-engine call that raises inside an announcement is         *)
(* fire-and-forget. The step in which it raises belongs to the             *)
(* announcement's thread and leaves the lock free; the caller of speak(),  *)
(* which returned before, sees nothing of it and can still call speak();   *)
(* and whenever the lock is free every waiting announcement can take it,   *)
(* so announcements after the failure are still spoken.                    *)
(***************************************************************************)
C36_SpeechFailureIsFireAndForget ==
    /\ [][ \A t \in DOMAIN speech_threads :
              (speech_threads[t].at # "failed" /\ speech_threads'[t].at = "failed")
                 => /\ tts_lock' = NoThread
                    /\ last_op' = "_speak"
                    /\ loopVars' = loopVars
                    /\ visionAll' = visionAll
         ]_vars
    /\ [](\A t \in DOMAIN speech_threads :
            speech_threads[t].at = "failed" => tts_lock # t)
    /\ [](Len(speech_threads) < MaxSpeechThreads =>
            ENABLED speak(FallAlertMessage, TRUE))
    /\ [](\A t \in DOMAIN speech_threads :
            (speech_threads[t].at = "start" /\ InSpeechEngine = {})
               => ENABLED SpeechAcquire(t))

\* the second announcement is being spoken after the engine raised in the
\* first
C36_Witness ==
    /\ Len(speech_threads) >= 2
    /\ speech_threads[1].at = "failed"
    /\ speech_threads[2].at = "runAndWait"
    /\ tts_lock = 2

AsksAhead(command) ==
    /\ InCommand("ahead", command) \/ InCommand("front", command)
    /\ ~InCommand("describe", command)
    /\ ~InCommand("what", command)
    /\ ~InCommand("scene", command)

(***************************************************************************)
(* C38: the answer to the 'ahead' command names the closest object ahead:  *)
(* a current detection whose direction is "ahead" and whose distance score *)
(* no other detection ahead exceeds; and it is "Path ahead is clear"       *)
(* exactly when no current detection is ahead.                             *)
(***************************************************************************)
C38_AheadCommandReportsTheClosest ==
    (last_op = "handle_voice_command" /\ AsksAhead(call_args)) =>
        LET ahead == {i \in DOMAIN current_detections :
                         current_detections[i].direction = "ahead"}
        IN  /\ ahead = {} <=> call_result = <<"Path ahead is clear">>
            /\ ahead # {} =>
                  \E i \in ahead :
                      /\ \A j \in ahead :
                            current_detections[i].distance_score
                               >= current_detections[j].distance_score
                      /\ call_result = <<current_detections[i].name,
                                         current_detections[i].distance, "ahead">>

\* ---- C39 ----
EndedSessions == {i \in DOMAIN db.sessions : db.sessions[i].end_time # None}
OpenSessions == {i \in DOMAIN db.sessions : db.sessions[i].end_time = None}
AlertsUnder(i) == {k \in DOMAIN db.alerts : db.alerts[k].session_id = i}
CriticalAlertsUnder(i) ==
    {k \in AlertsUnder(i) : db.alerts[k].distance_category = "critical"}
DetectionsUnder(i) ==
    {k \in DOMAIN db.detections : db.detections[k].session_id = i}

\* C39: the session that start_session creates is the one get_current_session
\* then returns, and it is the latest started session without an end time; a
\* session that has been ended keeps its end time and is never the current
\* one again; its stored total_alerts, total_detections and critical_alerts
\* are the numbers of rows logged under its id, critical_alerts being at most
\* total_alerts; and GET /api/status answers 'active' exactly when some
\* started session has not been ended.
C39_SessionLifecycle ==
    /\ [](\A i \in EndedSessions :
            /\ get_current_session(db) # i
            /\ db.sessions[i].total_alerts = Cardinality(AlertsUnder(i))
            /\ db.sessions[i].total_detections = Cardinality(DetectionsUnder(i))
            /\ db.sessions[i].critical_alerts = Cardinality(CriticalAlertsUnder(i))
            /\ db.sessions[i].critical_alerts <= db.sessions[i].total_alerts)
    /\ [](last_op = "get_status" =>
            /\ (http_response.body.status = "active") <=> (OpenSessions # {})
            /\ http_response.body.status \in {"active", "inactive"})
    /\ [][/\ last_op' = "start_session" =>
               /\ Len(db'.sessions) = Len(db.sessions) + 1
               /\ get_current_session(db') = Len(db'.sessions)
               /\ session_id' = Len(db'.sessions)
               /\ db'.sessions[Len(db'.sessions)].end_time = None
               /\ \A j \in DOMAIN db.sessions :
                     db.sessions[j].end_time = None =>
                        db'.sessions[Len(db'.sessions)].start_time
                            > db.sessions[j].start_time
          /\ \A i \in EndedSessions :
                /\ i \in DOMAIN db'.sessions
                /\ db'.sessions[i] = db.sessions[i]]_vars

\* session 1 was ended with two alerts, one of them critical, session 2 is
\* open and GET /api/status has just reported it
C39_Witness ==
    /\ last_op = "get_status"
    /\ Len(db.sessions) = 2
    /\ db.sessions[1].end_time # None
    /\ db.sessions[1].total_alerts = 2
    /\ db.sessions[1].critical_alerts = 1
    /\ db.sessions[2].end_time = None
    /\ http_response.body.status = "active"
    /\ http_response.body.current_session_id = 2

====
